---- MODULE Spec2Model ----
(***************************************************************************)
(* The e-book generator: main() of the richest pipeline variant, the       *)
(* helpers of package htmlpdf it calls (ReceiveOutputFileStatus,           *)
(* UpdatePageCountForDownloadedExamples, AddPageInfoToTOC,                 *)
(* WriteHTMLAndPDFExp, CleanupTmpFiles, ApplyBookmarks) and the external   *)
(* collaborators (browser render, pdfcpu page count / merge / bookmarks,   *)
(* the file system) as nondeterministic outcomes.                          *)
(***************************************************************************)
EXTENDS Integers, Sequences, FiniteSets, TLC

\* ------------------------------------------------------------------ bounds
MaxItems == 2        \* longest example list of a whole run
MaxBookmarkItems == 3  \* longest example list handed to ApplyBookmarks alone
MaxPages == 2        \* most pages the browser renders for one example
MaxOldPages == 1     \* most pages of a PDF found on disk before the run
MaxIntroPages == 3   \* most pages the browser renders for the front matter
MaxRerunItems == 2   \* longest example list of a run that is started twice
MaxWords == 3        \* longest word list given to WordOverlap on its own
MaxNameLen == 3      \* longest identifier enumerated for ExtractWords
MaxListing == 2      \* most example names in the remote listing
MaxCacheEntries == 2 \* most entries of the output directory before a run
MaxAssetFailures == 1  \* most asset downloads that fail in one run
MaxRemovalFailures == 1  \* most os.Remove calls that fail in one run
MaxFetchWarnings == 1  \* most warnings of GetGitHubFiles when main calls it

\* ------------------------------------------------------- program constants
IntroFallback == 2           \* introPageCount = 2 // fallback assumption
PageFallback == 1            \* pageCount = 1 // fallback assumption
MinIntroPages == 2           \* the template breaks the page before the TOC
outputDir == "files"
finalPdf == "go-by-example-generated-ebook.pdf"
IntroTitle == "Introduction & Table of Contents"

\* The names the remote listing can hold, in sorted order.  An Example whose
\* Title and File are both the listing name is what GetGitHubFiles returns
\* for such a name, whether it was downloaded or found in the cache.
Catalogue == <<"arrays", "channels", "goroutines", "maps">>

\* The four assets GetGitHubFiles downloads into the output directory.
AssetNames == {"site.css", "site.js", "play.png", "clipboard.png"}

Example(name) == [Title |-> name, Content |-> "<" \o name \o ">", File |-> name]

\* ------------------------------------------------------------- file system
Join(dir, name) == dir \o "/" \o name

Exists(d, p) == p \in DOMAIN d

WriteFile(d, p, v) == [q \in (DOMAIN d) \cup {p} |-> IF q = p THEN v ELSE d[q]]

Remove(d, p) == [q \in (DOMAIN d) \ {p} |-> d[q]]

HtmlFile(content) == [kind |-> "html", body |-> content, marks |-> <<>>]

PdfFile(pages, marks) == [kind |-> "pdf", body |-> pages, marks |-> marks]

\* What os.Create leaves when the copy of the PDF stream fails: a file that
\* is no readable PDF.
PartialPdf == [kind |-> "partial", body |-> <<>>, marks |-> <<>>]

\* A rendered PDF: n pages, each labelled with the document it came from.
Pages(src, n) == [j \in 1..n |-> [src |-> src, no |-> j]]

RECURSIVE RemoveAll(_, _, _)
RemoveAll(d, dir, files) ==
    IF files = <<>> THEN d
    ELSE RemoveAll(Remove(d, Join(dir, Head(files))), dir, Tail(files))

\* log.Printf("[INFO] Could not remove temp file ...") for the files os.Remove
\* fails on: those of failing, and those that do not exist.
RemoveLogs(d, dir, files, failing) ==
    {<<"INFO", files[i]>> : i \in {j \in 1..Len(files) :
                                      \/ files[j] \in failing
                                      \/ ~Exists(d, Join(dir, files[j]))}}

\* The files of a call without those of failing, in order.
RECURSIVE Without(_, _)
Without(files, failing) ==
    IF files = <<>> THEN <<>>
    ELSE (IF Head(files) \in failing THEN <<>> ELSE <<Head(files)>>)
         \o Without(Tail(files), failing)

\* Every os.Remove of the loop can fail on its own: the sets of files of a
\* call whose removal fails, after failed removals were seen in the run.
FallibleRemovals(files, failed) ==
    {failing \in SUBSET {files[i] : i \in 1..Len(files)} :
        Cardinality(failing) + failed <= MaxRemovalFailures}

\* A slip: the cleanup leaves the files in place.
CleanupTmpFilesKeeps(d, dir, files, failed) == {[d |-> d, logs |-> {}]}

\* for _, file := range files: os.Remove; an error is logged and the loop
\* goes on.
CleanupTmpFiles(d, dir, files, failed) ==
    {[d |-> RemoveAll(d, dir, Without(files, failing)),
      logs |-> RemoveLogs(d, dir, files, failing)]
     : failing \in FallibleRemovals(files, failed)}

\* ------------------------------------------------------------ pure helpers
ReceiveOutputFileStatus(d, dir, filename) ==
    [HTMLExists |-> Exists(d, Join(dir, filename \o ".html")),
     PDFExists  |-> Exists(d, Join(dir, filename \o ".pdf")),
     HTMLPath   |-> Join(dir, filename \o ".html"),
     PDFPath    |-> Join(dir, filename \o ".pdf")]

\* api.PageCountFile: the page count of the file, or an error.
PageCountFile(d, p, ok) ==
    IF ok /\ Exists(d, p) /\ d[p].kind = "pdf" THEN [n |-> Len(d[p].body), err |-> FALSE]
    ELSE [n |-> 0, err |-> TRUE]

\* One <li> of the table of contents: the printed page and the title.
RECURSIVE TOCLoop(_, _, _, _, _)
TOCLoop(exs, counts, i, currentPage, tocContent) ==
    IF i > Len(exs) THEN tocContent
    ELSE TOCLoop(exs, counts, i + 1,
                 IF i <= Len(counts) THEN currentPage + counts[i]
                 ELSE currentPage + 1,
                 Append(tocContent, [page |-> currentPage, title |-> exs[i].Title]))

AddPageInfoToTOC(exs, startPage, counts) == TOCLoop(exs, counts, 1, startPage, <<>>)

\* A slip: the ordinal counted from 0, as the loop index is.
BookmarkTitleZeroBased(i, title) == ToString(i - 1) \o ". " \o title

BookmarkTitle(i, title) == ToString(i) \o ". " \o title

\* A slip: PageThru taken as exclusive.
ExampleBookmarkExclusiveThru(i, title, start, pageCount) ==
    [Title |-> BookmarkTitle(i, title),
     PageFrom |-> start,
     PageThru |-> start + pageCount]

ExampleBookmark(i, title, start, pageCount) ==
    [Title |-> BookmarkTitle(i, title),
     PageFrom |-> start,
     PageThru |-> start + pageCount - 1]

IntroBookmark(introPages) ==
    [Title |-> IntroTitle, PageFrom |-> 1, PageThru |-> introPages]

\* The loop of ApplyBookmarks; i runs over the examples, the caller has made
\* sure counts[i] exists.
RECURSIVE BookmarkLoop(_, _, _, _, _)
BookmarkLoop(exs, counts, i, exampleStartPage, bms) ==
    IF i > Len(exs) THEN bms
    ELSE BookmarkLoop(exs, counts, i + 1, exampleStartPage + counts[i],
                      Append(bms, ExampleBookmark(i, exs[i].Title,
                                                  exampleStartPage, counts[i])))

BuildBookmarks(exs, introPages, counts) ==
    BookmarkLoop(exs, counts, 1, introPages + 1, <<IntroBookmark(introPages)>>)

\* params.ExamplePageCounts[i] with i >= len: index out of range.
BookmarksPanic(exs, counts) == Len(counts) < Len(exs)

RECURSIVE MergePages(_, _, _)
MergePages(d, paths, i) ==
    IF i > Len(paths) THEN <<>>
    ELSE d[paths[i]].body \o MergePages(d, paths, i + 1)

\* ------------------------------------------------------------------ strings
\* A Go string is the sequence of its characters, each a one-character
\* string; the characters that occur are those of Ascii, in byte order.
Ascii == <<"\t", " ", "-", ".", ":",
           "A", "B", "C", "D", "E", "F", "G", "H", "I", "J", "K", "L", "M",
           "N", "O", "P", "Q", "R", "S", "T", "U", "V", "W", "X", "Y", "Z",
           "_",
           "a", "b", "c", "d", "e", "f", "g", "h", "i", "j", "k", "l", "m",
           "n", "o", "p", "q", "r", "s", "t", "u", "v", "w", "x", "y", "z">>

CharCodes == [c \in {Ascii[i] : i \in 1..Len(Ascii)} |->
                 CHOOSE i \in 1..Len(Ascii) : Ascii[i] = c]

Ord(c) == CharCodes[c]

IsUpper(c) == Ord(c) >= Ord("A") /\ Ord(c) <= Ord("Z")

IsWordChar(c) == IsUpper(c) \/ c = "_" \/ (Ord(c) >= Ord("a") /\ Ord(c) <= Ord("z"))

IsSpace(c) == c \in {" ", "\t"}

\* strings.ToLower
ToLowerChar(c) == IF IsUpper(c) THEN Ascii[Ord(c) - Ord("A") + Ord("a")] ELSE c

ToLower(s) == [i \in 1..Len(s) |-> ToLowerChar(s[i])]

\* strings.TrimSpace
RECURSIVE TrimLeft(_)
TrimLeft(s) == IF s # <<>> /\ IsSpace(Head(s)) THEN TrimLeft(Tail(s)) ELSE s

RECURSIVE TrimRight(_)
TrimRight(s) ==
    IF s # <<>> /\ IsSpace(s[Len(s)]) THEN TrimRight(SubSeq(s, 1, Len(s) - 1)) ELSE s

TrimSpace(s) == TrimRight(TrimLeft(s))

\* strings.HasSuffix, strings.TrimSuffix
HasSuffix(s, suffix) ==
    /\ Len(s) >= Len(suffix)
    /\ SubSeq(s, Len(s) - Len(suffix) + 1, Len(s)) = suffix

TrimSuffix(s, suffix) ==
    IF HasSuffix(s, suffix) THEN SubSeq(s, 1, Len(s) - Len(suffix)) ELSE s

DotHtml == <<".", "h", "t", "m", "l">>

\* The order of sort.Strings and of the entries os.ReadDir returns.
RECURSIVE StrLess(_, _)
StrLess(s, t) ==
    IF t = <<>> THEN FALSE
    ELSE IF s = <<>> THEN TRUE
    ELSE IF Head(s) = Head(t) THEN StrLess(Tail(s), Tail(t))
    ELSE Ord(Head(s)) < Ord(Head(t))

\* The elements of a set of strings as a sequence in that order.
RECURSIVE SortStrings(_)
SortStrings(S) ==
    IF S = {} THEN <<>>
    ELSE LET m == CHOOSE x \in S : \A y \in S \ {x} : StrLess(x, y)
         IN  <<m>> \o SortStrings(S \ {m})

\* The Go string as one TLA+ string, for log entries.
RECURSIVE Str(_)
Str(s) == IF s = <<>> THEN "" ELSE Head(s) \o Str(Tail(s))

\* ----------------------------------------------------------- package naming
\* A slip: only the hyphen separates words.
IsSeparatorHyphen(r) == r = "-"

IsSeparator(r) == r = "-" \/ r = "_" \/ r = " " \/ r = ":"

\* strings.FieldsFunc(filename, IsSeparator): the maximal runs of characters
\* that are not separators; cur is the run being read.
RECURSIVE FieldsFunc(_, _)
FieldsFunc(s, cur) ==
    IF s = <<>> THEN (IF cur = <<>> THEN <<>> ELSE <<cur>>)
    ELSE IF IsSeparator(Head(s))
         THEN (IF cur = <<>> THEN <<>> ELSE <<cur>>) \o FieldsFunc(Tail(s), <<>>)
         ELSE FieldsFunc(Tail(s), Append(cur, Head(s)))

\* A slip: the common words are kept.
KeepWordAll(word) == word # <<>>

\* word != "" && word != "go" && word != "by" && word != "example"
KeepWord(word) ==
    /\ word # <<>>
    /\ word # <<"g", "o">>
    /\ word # <<"b", "y">>
    /\ word # <<"e", "x", "a", "m", "p", "l", "e">>

RECURSIVE FilterWords(_)
FilterWords(words) ==
    IF words = <<>> THEN <<>>
    ELSE LET word == ToLower(TrimSpace(Head(words)))
         IN  (IF KeepWord(word) THEN <<word>> ELSE <<>>) \o FilterWords(Tail(words))

ExtractWords(filename) == FilterWords(FieldsFunc(TrimSuffix(filename, DotHtml), <<>>))

\* A float64 quotient of two small integers is kept as the pair it was
\* computed from; 0.0 is 0/1.
Ratio(num, den) == [num |-> num, den |-> den]

WordSet(words) == {words[i] : i \in 1..Len(words)}

\* A slip: the union is sized by the lengths of the lists, not of the sets.
WordOverlapByLength(originalWords, existingWords) ==
    IF Len(originalWords) = 0 \/ Len(existingWords) = 0 THEN Ratio(0, 1)
    ELSE LET originalWordSet == WordSet(originalWords)
             existingWordSet == WordSet(existingWords)
             overlappingWords ==
                 Cardinality({word \in originalWordSet : word \in existingWordSet})
             totalUniqueWords ==
                 Len(originalWords) + Len(existingWords) - overlappingWords
         IN  IF totalUniqueWords = 0 THEN Ratio(0, 1)
             ELSE Ratio(overlappingWords, totalUniqueWords)

WordOverlap(originalWords, existingWords) ==
    IF Len(originalWords) = 0 \/ Len(existingWords) = 0 THEN Ratio(0, 1)
    ELSE LET originalWordSet == WordSet(originalWords)
             existingWordSet == WordSet(existingWords)
             overlappingWords ==
                 Cardinality({word \in originalWordSet : word \in existingWordSet})
             totalUniqueWords ==
                 Cardinality(originalWordSet) + Cardinality(existingWordSet)
                     - overlappingWords
         IN  IF totalUniqueWords = 0 THEN Ratio(0, 1)
             ELSE Ratio(overlappingWords, totalUniqueWords)

\* ------------------------------------------------------------------- state
VARIABLES
    pc,                 \* position of main()
    examples,           \* the list returned by GetGitHubFiles
    disk,               \* path -> file, the files that exist
    browser,            \* "none", "open", "closed"
    acquired,           \* how often prepHeadlessBrowser returned a browser
    idx,                \* 1-based index of the example the loop is at
    pdfPaths,           \* main's pdfPaths
    examplePageCounts,  \* main's examplePageCounts
    outcome,            \* per processed example: "reused", "rendered", "skipped"
    introPageCount,     \* main's introPageCount (0 before it is measured)
    introRenders,       \* the front-matter renders so far: toc, pages, path
    bookmarks,          \* the bookmarks ApplyBookmarks built (<<>> before)
    outline,            \* "", "added", "fallback": what ApplyBookmarks did
    steps,              \* the pipeline steps taken, in order
    logs,               \* log.Printf entries: <<level, subject>>
    lastRun,            \* the front matter of the previous run of the program:
                        \* <<>> or <<[F, pages, measured]>>
    calls,              \* the calls of CreateHTMLFile and HTMLToPDF in the last
                        \* pass of main's loop: <<function, file>>
    \* package naming, called on its own
    originalWords,      \* WordOverlap's first argument
    existingWords,      \* WordOverlap's second argument
    filename,           \* the identifier given to ExtractWords
    overlap,            \* <<>> or <<WordOverlap(A, B), WordOverlap(B, A)>>
    selfMatch,          \* <<>> or <<the matcher applied to (filename, filename)>>
    \* GetGitHubFiles
    ghpc,               \* position of GetGitHubFiles
    exampleFiles,       \* the names GetExampleFilesFromGitHub returns
    dir,                \* the entries of outputDir: name -> [readable, content]
    fileIdx,            \* 1-based index of the name the loop is at
    ghExamples,         \* GetGitHubFiles' examples
    decisions,          \* per name of the loop: what the scan examined and chose;
                        \* kind "reuse" (a cached file adopted), "download"
                        \* (downloadFile called and succeeded) or "skip"
                        \* (downloadFile called and failed)
    errors              \* the recoverable errors that occurred: <<kind, item>>

mainVars == <<pc, examples, disk, browser, acquired, idx, pdfPaths,
              examplePageCounts, outcome, introPageCount, introRenders,
              bookmarks, outline, steps, lastRun>>

namingVars == <<originalWords, existingWords, filename, overlap, selfMatch>>

fetchVars == <<ghpc, exampleFiles, dir, fileIdx, ghExamples, decisions, errors>>

vars == <<pc, examples, disk, browser, acquired, idx, pdfPaths,
          examplePageCounts, outcome, introPageCount, introRenders,
          bookmarks, outline, steps, logs, lastRun, calls,
          originalWords, existingWords, filename, overlap, selfMatch,
          ghpc, exampleFiles, dir, fileIdx, ghExamples, decisions, errors>>

\* package naming and GetGitHubFiles at rest.
NamingIdle ==
    /\ originalWords = <<>>
    /\ existingWords = <<>>
    /\ filename = <<>>
    /\ overlap = <<>>
    /\ selfMatch = <<>>

FetchIdle ==
    /\ ghpc = "idle"
    /\ exampleFiles = <<>>
    /\ dir = <<>>
    /\ fileIdx = 1
    /\ ghExamples = <<>>
    /\ decisions = <<>>
    /\ errors = {}

\* ----------------------------------------------------------------- inputs
\* The list GetGitHubFiles returns is sorted by Title: the first n names.
ExampleList(n) == [i \in 1..n |-> Example(Catalogue[i])]

ExampleLists == {ExampleList(n) : n \in 0..MaxItems}

FilesOf(exs) == {exs[i].File : i \in 1..Len(exs)}

\* What the output directory can hold for one example before the run.
OldHtml == {"absent", "present"}
OldPdf == {-1, 0, MaxOldPages}   \* no PDF, an empty one, one of MaxOldPages pages

InitialDisks(exs) ==
    {[p \in {Join(outputDir, f \o ".html") : f \in {g \in FilesOf(exs) : h[g] = "present"}}
            \cup {Join(outputDir, f \o ".pdf") : f \in {g \in FilesOf(exs) : o[g] >= 0}}
        |-> LET f == CHOOSE g \in FilesOf(exs) :
                        p \in {Join(outputDir, g \o ".html"), Join(outputDir, g \o ".pdf")}
            IN IF p = Join(outputDir, f \o ".html")
               THEN HtmlFile("<" \o f \o ">")
               ELSE PdfFile(Pages(f, o[f]), <<>>)]
     : h \in [FilesOf(exs) -> OldHtml], o \in [FilesOf(exs) -> OldPdf]}

Init ==
    /\ pc = "start"
    /\ examples \in ExampleLists
    /\ disk \in InitialDisks(examples)
    /\ browser = "none"
    /\ acquired = 0
    /\ idx = 1
    /\ pdfPaths = <<>>
    /\ examplePageCounts = <<>>
    /\ outcome = <<>>
    /\ introPageCount = 0
    /\ introRenders = <<>>
    /\ bookmarks = <<>>
    /\ outline = ""
    /\ steps = <<>>
    /\ logs = {}
    /\ lastRun = <<>>
    /\ calls = <<>>
    /\ NamingIdle
    /\ FetchIdle

\* A slip: log.Printf where log.Fatalf was meant, so a failed merge is logged
\* and the run goes on.
FatalLogsOnly(step, subject) ==
    /\ pc' = (IF step = "merge1" THEN "tempIntro"
              ELSE IF step = "merge2" THEN "bookmarks" ELSE "fatal")
    /\ steps' = Append(steps, step)
    /\ logs' = logs \cup {<<"ERROR", subject>>}
    /\ browser' = browser

\* log.Fatalf: the entry is written and os.Exit(1) ends the process at once;
\* deferred calls do not run.
Fatal(step, subject) ==
    /\ pc' = "fatal"
    /\ steps' = Append(steps, step)
    /\ logs' = logs \cup {<<"ERROR", subject>>}
    /\ browser' = browser

\* ------------------------------------------------------ collaborator calls
\* The page counts the browser is taken to produce: the shortest and the
\* longest document, for an example and for the front matter.
RenderedPages == {1, MaxPages}

IntroPages == {MinIntroPages, MaxIntroPages}

\* CreateHTMLFile for an example: skipped when the file exists, else the
\* write succeeds or fails.
HtmlOutcomes(d, ex, fileStatus) ==
    IF fileStatus.HTMLExists THEN {[d |-> d, err |-> FALSE]}
    ELSE {[d |-> WriteFile(d, fileStatus.HTMLPath, HtmlFile(ex.Content)), err |-> FALSE],
          [d |-> d, err |-> TRUE]}

\* HTMLToPDF(browser, htmlPath, pdfPath): MustPage or MustWaitStable panics;
\* filepath.Abs, page.PDF or os.Create fails and nothing is written; io.Copy
\* fails after os.Create made the file; or the PDF of some number of pages
\* drawn from counts is written.
HTMLToPDF(d, pdfPath, src, counts) ==
    {[d |-> WriteFile(d, pdfPath, PdfFile(Pages(src, p), <<>>)),
      err |-> FALSE, panic |-> FALSE, pages |-> p] : p \in counts}
    \cup {[d |-> d, err |-> TRUE, panic |-> FALSE, pages |-> 0],
          [d |-> WriteFile(d, pdfPath, PartialPdf), err |-> TRUE, panic |-> FALSE,
           pages |-> 0],
          [d |-> d, err |-> FALSE, panic |-> TRUE, pages |-> 0]}

\* HTMLToPDF for an example: not called when the PDF exists.
PdfOutcomes(d, ex, fileStatus) ==
    IF fileStatus.PDFExists
    THEN {[d |-> d, err |-> FALSE, panic |-> FALSE, pages |-> 0]}
    ELSE HTMLToPDF(d, fileStatus.PDFPath, ex.File, RenderedPages)

\* A slip: the fallback is taken without the warning.
CountOutcomesSilent(d, path, subject, fallback) ==
    {LET r == PageCountFile(d, path, ok)
     IN  IF r.err THEN [n |-> fallback, logs |-> {}]
         ELSE [n |-> r.n, logs |-> {}]
     : ok \in BOOLEAN}

\* pageCount, err := api.PageCountFile(path); on error log and fall back.
CountOutcomes(d, path, subject, fallback) ==
    {LET r == PageCountFile(d, path, ok)
     IN  IF r.err THEN [n |-> fallback, logs |-> {<<"WARNING", subject>>}]
         ELSE [n |-> r.n, logs |-> {}]
     : ok \in BOOLEAN}

\* A slip: the page count is appended and the path is not.
UpdatePageCountOnly(ex, fileStatus, paths, counts, d) ==
    {[PDFPaths |-> paths,
      ExamplePageCounts |-> Append(counts, c.n),
      Logs |-> c.logs]
     : c \in CountOutcomes(d, fileStatus.PDFPath, ex.Title, PageFallback)}

\* pdfPaths = append(pdfPaths, fileStatus.PDFPath); the page count of the
\* existing PDF is appended to examplePageCounts.
UpdatePageCountForDownloadedExamples(ex, fileStatus, paths, counts, d) ==
    {[PDFPaths |-> Append(paths, fileStatus.PDFPath),
      ExamplePageCounts |-> Append(counts, c.n),
      Logs |-> c.logs]
     : c \in CountOutcomes(d, fileStatus.PDFPath, ex.Title, PageFallback)}

\* WriteHTMLAndPDFExp: CreateHTMLFile fails, or the HTML is written and
\* HTMLToPDF runs on it.
WriteHTMLAndPDFExp(d, content, htmlPath, pdfPath, src) ==
    {[d |-> d, err |-> TRUE, panic |-> FALSE, pages |-> 0]}
    \cup HTMLToPDF(WriteFile(d, htmlPath, HtmlFile(content)), pdfPath, src, IntroPages)

\* ----------------------------------------------------------------- actions
\* The os.Remove calls that failed so far in this run: a file of a cleanup
\* that is still there although its removal was logged as failed, and
\* temp_with_intro.pdf still there after ApplyBookmarks added the bookmarks.
FailedRemovals ==
    Cardinality({f \in {"temp_intro.html", "temp_intro.pdf", "merged_examples.pdf",
                        "intro.pdf", "intro.html"} :
                    <<"INFO", f>> \in logs /\ Exists(disk, Join(outputDir, f))})
    + (IF pc = "finish" /\ Exists(disk, Join(outputDir, "temp_with_intro.pdf"))
       THEN 1 ELSE 0)

\* What GetGitHubFiles can have warned about when it returns the list exs on
\* the directory d: an asset whose download failed, a listed name after
\* those of exs whose download failed (it is left out of the list), and a
\* cached file of an example that matched and could not be read.
FetchWarningSubjects(d, exs) ==
    AssetNames
    \cup {Catalogue[i] : i \in (Len(exs) + 1)..Len(Catalogue)}
    \cup {f \o ".html" : f \in {g \in FilesOf(exs) :
                                   Exists(d, Join(outputDir, g \o ".html"))}}

\* downloadAsset wrote every asset whose download did not fail.
WithAssets(d, failing) ==
    LET paths == {Join(outputDir, a) : a \in AssetNames \ failing}
    IN  [p \in (DOMAIN d) \cup paths
            |-> IF p \in paths
                THEN HtmlFile(<<"remote", CHOOSE a \in AssetNames : Join(outputDir, a) = p>>)
                ELSE d[p]]

\* examples, err := github.GetGitHubFiles(outputDir): the assets are written,
\* the failures are logged as warnings, and the list is returned; or the
\* listing fails after the assets and main ends with log.Fatalf.
CallGetGitHubFiles ==
    /\ pc = "start"
    /\ \E warned \in SUBSET FetchWarningSubjects(disk, examples) :
          /\ Cardinality(warned) <= MaxFetchWarnings
          /\ disk' = WithAssets(disk, warned \cap AssetNames)
          /\ \/ /\ pc' = "browser"
                /\ steps' = Append(steps, "fetch")
                /\ logs' = logs \cup {<<"WARNING", w>> : w \in warned}
                /\ browser' = browser
             \/ /\ warned \subseteq AssetNames
                /\ pc' = "fatal"
                /\ steps' = Append(steps, "fetch")
                /\ logs' = logs \cup {<<"WARNING", w>> : w \in warned}
                                \cup {<<"ERROR", "examples">>}
                /\ browser' = browser
    /\ UNCHANGED <<namingVars, fetchVars, calls>>
    /\ UNCHANGED <<lastRun, examples, acquired, idx, pdfPaths, examplePageCounts,
                   outcome, introPageCount, introRenders, bookmarks, outline>>

\* The deferred browser.MustClose() when main ends: the browser is closed, or
\* closing failed, the error is dropped and the browser is left open.
MustClose == {"closed", "open"}

\* browser := prepHeadlessBrowser(); defer browser.MustClose(): the browser is
\* returned, or rod.New().MustConnect() panics and main ends before the defer
\* statement, without a browser.
PrepHeadlessBrowser ==
    /\ pc = "browser"
    /\ \/ /\ pc' = "loop"
          /\ browser' = "open"
          /\ acquired' = acquired + 1
       \/ /\ pc' = "connectPanic"
          /\ browser' = browser
          /\ acquired' = acquired
    /\ steps' = Append(steps, "browser")
    /\ UNCHANGED <<namingVars, fetchVars, calls>>
    /\ UNCHANGED <<lastRun, examples, disk, idx, pdfPaths, examplePageCounts, outcome,
                   introPageCount, introRenders, bookmarks, outline, logs>>

\* A slip: the loop stops one example short.
LoopDoneEarly == idx >= Len(examples)

\* The range loop has gone through every example.
LoopDone == idx > Len(examples)

\* if !fileStatus.HTMLExists { err = htmlpdf.CreateHTMLFile(...) }
HtmlCalls(ex, fileStatus) ==
    IF fileStatus.HTMLExists THEN <<>> ELSE <<<<"CreateHTMLFile", ex.File>>>>

\* if !fileStatus.PDFExists { err = htmlpdf.HTMLToPDF(...) }
PdfCalls(ex, fileStatus) ==
    IF fileStatus.PDFExists THEN <<>> ELSE <<<<"HTMLToPDF", ex.File>>>>

\* The pass is over and the loop goes on with the next example.
NextExample ==
    /\ idx' = idx + 1
    /\ steps' = Append(steps, "item")
    /\ UNCHANGED <<pc, browser>>

\* MustPage or MustWaitStable panicked: main unwinds, the deferred
\* browser.MustClose() runs and the process ends.
RenderPanic(step) ==
    /\ pc' = "renderPanic"
    /\ browser' \in MustClose
    /\ steps' = Append(steps, step)
    /\ logs' = logs

\* One pass of the body of "for i, ex := range examples".
ProcessExample ==
    /\ pc = "loop"
    /\ ~LoopDone
    /\ LET ex == examples[idx]
           fileStatus == ReceiveOutputFileStatus(disk, outputDir, ex.File)
       IN  IF fileStatus.HTMLExists /\ fileStatus.PDFExists
           THEN \E result \in UpdatePageCountForDownloadedExamples(
                                  ex, fileStatus, pdfPaths, examplePageCounts, disk) :
                    /\ pdfPaths' = result.PDFPaths
                    /\ examplePageCounts' = result.ExamplePageCounts
                    /\ logs' = logs \cup result.Logs
                    /\ outcome' = Append(outcome, "reused")
                    /\ disk' = disk
                    /\ calls' = <<>>
                    /\ NextExample
           ELSE \E h \in HtmlOutcomes(disk, ex, fileStatus) :
                    IF h.err
                    THEN /\ logs' = logs \cup {<<"ERROR", ex.Title>>}
                         /\ outcome' = Append(outcome, "skipped")
                         /\ disk' = h.d
                         /\ calls' = HtmlCalls(ex, fileStatus)
                         /\ NextExample
                         /\ UNCHANGED <<pdfPaths, examplePageCounts>>
                    ELSE \E r \in PdfOutcomes(h.d, ex, fileStatus) :
                         IF r.panic
                         THEN /\ RenderPanic("item")
                              /\ disk' = r.d
                              /\ calls' = HtmlCalls(ex, fileStatus)
                                                \o PdfCalls(ex, fileStatus)
                              /\ UNCHANGED <<idx, outcome, pdfPaths, examplePageCounts>>
                         ELSE IF r.err
                         THEN /\ logs' = logs \cup {<<"ERROR", ex.Title>>}
                              /\ outcome' = Append(outcome, "skipped")
                              /\ disk' = r.d
                              /\ calls' = HtmlCalls(ex, fileStatus)
                                                \o PdfCalls(ex, fileStatus)
                              /\ NextExample
                              /\ UNCHANGED <<pdfPaths, examplePageCounts>>
                         ELSE \E c \in CountOutcomes(r.d, fileStatus.PDFPath,
                                                     ex.Title, PageFallback) :
                              /\ pdfPaths' = Append(pdfPaths, fileStatus.PDFPath)
                              /\ examplePageCounts' = Append(examplePageCounts, c.n)
                              /\ logs' = logs \cup c.logs
                              /\ outcome' = Append(outcome, "rendered")
                              /\ disk' = r.d
                              /\ calls' = HtmlCalls(ex, fileStatus)
                                                \o PdfCalls(ex, fileStatus)
                              /\ NextExample
    /\ UNCHANGED <<namingVars, fetchVars>>
    /\ UNCHANGED <<lastRun, examples, acquired, introPageCount,
                   introRenders, bookmarks, outline>>

\* api.MergeCreateFile called without an input file. pdfcpu is a library
\* outside this repository: the call may run into a panic on the first input
\* file, after it created the output file or before; main unwinds and the
\* deferred browser.MustClose() runs.
MergePanic(step, outFile) ==
    /\ pc' = "mergePanic"
    /\ browser' \in MustClose
    /\ steps' = Append(steps, step)
    /\ logs' = logs
    /\ disk' \in {disk, WriteFile(disk, outFile, PartialPdf)}

\* err = api.MergeCreateFile(pdfPaths, mergedExamplesPdf, false, conf)
MergeExamples ==
    /\ pc = "loop"
    /\ LoopDone
    /\ \/ /\ \A i \in 1..Len(pdfPaths) : disk[pdfPaths[i]].kind = "pdf"
          /\ disk' = WriteFile(disk, Join(outputDir, "merged_examples.pdf"),
                               PdfFile(MergePages(disk, pdfPaths, 1), <<>>))
          /\ pc' = "tempIntro"
          /\ steps' = Append(steps, "merge1")
          /\ UNCHANGED <<logs, browser>>
       \/ /\ Fatal("merge1", "merge examples")
          /\ disk' = disk
       \/ /\ pdfPaths = <<>>
          /\ MergePanic("merge1", Join(outputDir, "merged_examples.pdf"))
    /\ UNCHANGED <<namingVars, fetchVars, calls>>
    /\ UNCHANGED <<lastRun, examples, acquired, idx, pdfPaths, examplePageCounts, outcome,
                   introPageCount, introRenders, bookmarks, outline>>

\* The placeholder front matter: AddPageInfoToTOC(examples, 1, nil), rendered
\* to temp_intro.pdf.
RenderTempIntro ==
    /\ pc = "tempIntro"
    /\ LET toc == AddPageInfoToTOC(examples, 1, <<>>)
       IN  \E w \in WriteHTMLAndPDFExp(disk, toc, Join(outputDir, "temp_intro.html"),
                                       Join(outputDir, "temp_intro.pdf"), "temp_intro") :
               /\ disk' = w.d
               /\ IF w.panic
                  THEN /\ RenderPanic("tempIntro")
                       /\ introRenders' = introRenders
                  ELSE IF w.err
                  THEN /\ Fatal("tempIntro", "temp intro")
                       /\ introRenders' = introRenders
                  ELSE /\ pc' = "measure"
                       /\ steps' = Append(steps, "tempIntro")
                       /\ introRenders' = Append(introRenders,
                              [toc |-> toc, pages |-> w.pages, path |-> "temp_intro.pdf"])
                       /\ UNCHANGED <<logs, browser>>
    /\ UNCHANGED <<namingVars, fetchVars, calls>>
    /\ UNCHANGED <<lastRun, examples, acquired, idx, pdfPaths, examplePageCounts, outcome,
                   introPageCount, bookmarks, outline>>

\* A slip: a page count that cannot be read ends the run.
MeasureIntroAborts ==
    /\ pc = "measure"
    /\ \E c \in CountOutcomes(disk, Join(outputDir, "temp_intro.pdf"),
                              "intro page count", IntroFallback) :
           /\ introPageCount' = c.n
           /\ logs' = logs \cup c.logs
           /\ pc' = (IF c.logs = {} THEN "intro" ELSE "fatal")
    /\ steps' = Append(steps, "measure")
    /\ UNCHANGED <<namingVars, fetchVars, calls>>
    /\ UNCHANGED <<lastRun, examples, disk, browser, acquired, idx, pdfPaths,
                   examplePageCounts, outcome, introRenders, bookmarks, outline>>

\* introPageCount, err := api.PageCountFile(temp_intro.pdf)
MeasureIntro ==
    /\ pc = "measure"
    /\ \E c \in CountOutcomes(disk, Join(outputDir, "temp_intro.pdf"),
                              "intro page count", IntroFallback) :
           /\ introPageCount' = c.n
           /\ logs' = logs \cup c.logs
    /\ pc' = "intro"
    /\ steps' = Append(steps, "measure")
    /\ UNCHANGED <<namingVars, fetchVars, calls>>
    /\ UNCHANGED <<lastRun, examples, disk, browser, acquired, idx, pdfPaths,
                   examplePageCounts, outcome, introRenders, bookmarks, outline>>

\* The final front matter, rendered to intro.pdf, then the placeholder files
\* are removed.
RenderIntro ==
    /\ pc = "intro"
    /\ LET toc == AddPageInfoToTOC(examples, introPageCount + 1, examplePageCounts)
       IN  \E w \in WriteHTMLAndPDFExp(disk, toc, Join(outputDir, "intro.html"),
                                       Join(outputDir, "intro.pdf"), "intro") :
               IF w.panic
               THEN /\ RenderPanic("intro")
                    /\ disk' = w.d
                    /\ introRenders' = introRenders
               ELSE IF w.err
               THEN /\ Fatal("intro", "intro")
                    /\ disk' = w.d
                    /\ introRenders' = introRenders
               ELSE /\ pc' = "merge2"
                    /\ steps' = Append(steps, "intro")
                    /\ introRenders' = Append(introRenders,
                           [toc |-> toc, pages |-> w.pages, path |-> "intro.pdf"])
                    /\ \E c \in CleanupTmpFiles(w.d, outputDir,
                                               <<"temp_intro.html", "temp_intro.pdf">>,
                                               FailedRemovals) :
                           /\ disk' = c.d
                           /\ logs' = logs \cup c.logs
                    /\ browser' = browser
    /\ UNCHANGED <<namingVars, fetchVars, calls>>
    /\ UNCHANGED <<lastRun, examples, acquired, idx, pdfPaths, examplePageCounts, outcome,
                   introPageCount, bookmarks, outline>>

\* err = api.MergeCreateFile(introAndExamples, tempMergedPdf, false, conf)
MergeIntro ==
    /\ pc = "merge2"
    /\ \/ /\ disk' = WriteFile(disk, Join(outputDir, "temp_with_intro.pdf"),
                         PdfFile(MergePages(disk, <<Join(outputDir, "intro.pdf"),
                                                    Join(outputDir, "merged_examples.pdf")>>, 1),
                                 <<>>))
          /\ pc' = "bookmarks"
          /\ steps' = Append(steps, "merge2")
          /\ UNCHANGED <<logs, browser>>
       \/ /\ Fatal("merge2", "merge intro")
          /\ disk' = disk
    /\ UNCHANGED <<namingVars, fetchVars, calls>>
    /\ UNCHANGED <<lastRun, examples, acquired, idx, pdfPaths, examplePageCounts, outcome,
                   introPageCount, introRenders, bookmarks, outline>>

\* ApplyBookmarks after api.AddBookmarksFile succeeded: the final file holds
\* the bookmarks and os.Remove is called on the temporary file, its error
\* ignored.
BookmarksAdded(tempMergedPdf, bms) ==
    /\ \E written \in {WriteFile(disk, finalPdf, PdfFile(disk[tempMergedPdf].body, bms))} :
           disk' \in {Remove(written, tempMergedPdf)}
                        \cup (IF FailedRemovals < MaxRemovalFailures
                              THEN {written} ELSE {})
    /\ outline' = "added"
    /\ pc' = "finish"
    /\ UNCHANGED <<logs, browser>>

\* A slip: the failure of api.AddBookmarksFile is returned instead of
\* falling back to the rename.
BookmarksFallbackAborts(tempMergedPdf) ==
    /\ disk' = disk
    /\ outline' = "fallback"
    /\ pc' = "fatal"
    /\ logs' = logs \cup {<<"WARNING", "bookmarks">>, <<"ERROR", "apply bookmarks">>}
    /\ browser' = browser

\* ApplyBookmarks after api.AddBookmarksFile failed: warn, then
\* os.Rename(TempMergedPDF, FinalPDF); its error is the only one returned,
\* and main turns it into log.Fatalf.
BookmarksFallback(tempMergedPdf) ==
    \/ /\ disk' = Remove(WriteFile(disk, finalPdf, disk[tempMergedPdf]), tempMergedPdf)
       /\ outline' = "fallback"
       /\ pc' = "finish"
       /\ logs' = logs \cup {<<"WARNING", "bookmarks">>}
       /\ browser' = browser
    \/ /\ disk' = disk
       /\ outline' = "failed"
       /\ pc' = "fatal"
       /\ logs' = logs \cup {<<"WARNING", "bookmarks">>, <<"ERROR", "apply bookmarks">>}
       /\ browser' = browser

\* err = htmlpdf.ApplyBookmarks(...); if err != nil { log.Fatalf(...) }
ApplyBookmarks ==
    /\ pc = "bookmarks"
    /\ steps' = Append(steps, "bookmarks")
    /\ LET tempMergedPdf == Join(outputDir, "temp_with_intro.pdf")
       IN  IF BookmarksPanic(examples, examplePageCounts)
           THEN \* runtime panic: the deferred browser.MustClose() runs
                /\ pc' = "panic"
                /\ browser' \in MustClose
                /\ UNCHANGED <<disk, bookmarks, outline, logs>>
           ELSE LET bms == BuildBookmarks(examples, introPageCount, examplePageCounts)
                IN  /\ bookmarks' = bms
                    /\ \/ BookmarksAdded(tempMergedPdf, bms)
                       \/ BookmarksFallback(tempMergedPdf)
    /\ UNCHANGED <<namingVars, fetchVars, calls>>
    /\ UNCHANGED <<lastRun, examples, acquired, idx, pdfPaths, examplePageCounts, outcome,
                   introPageCount, introRenders>>

\* A slip: main returns without the last cleanup.
FinishWithoutCleanup ==
    /\ pc = "finish"
    /\ pc' = "done"
    /\ browser' \in MustClose
    /\ steps' = Append(steps, "finish")
    /\ UNCHANGED <<namingVars, fetchVars, calls>>
    /\ UNCHANGED <<lastRun, examples, disk, acquired, idx, pdfPaths, examplePageCounts,
                   outcome, introPageCount, introRenders, bookmarks, outline, logs>>

\* The last cleanup and the return from main; the deferred MustClose runs.
Finish ==
    /\ pc = "finish"
    /\ \E c \in CleanupTmpFiles(disk, outputDir,
                               <<"merged_examples.pdf", "intro.pdf", "intro.html">>,
                               FailedRemovals) :
           /\ disk' = c.d
           /\ logs' = logs \cup c.logs
    /\ pc' = "done"
    /\ browser' \in MustClose
    /\ steps' = Append(steps, "finish")
    /\ UNCHANGED <<namingVars, fetchVars, calls>>
    /\ UNCHANGED <<lastRun, examples, acquired, idx, pdfPaths, examplePageCounts, outcome,
                   introPageCount, introRenders, bookmarks, outline>>

Next ==
    \/ CallGetGitHubFiles
    \/ PrepHeadlessBrowser
    \/ ProcessExample
    \/ MergeExamples
    \/ RenderTempIntro
    \/ MeasureIntro
    \/ RenderIntro
    \/ MergeIntro
    \/ ApplyBookmarks
    \/ Finish

Spec == Init /\ [][Next]_vars

\* ApplyBookmarks on its own: the state of a run at the call, for every list
\* of up to MaxBookmarkItems examples, every choice of the examples that were
\* skipped, every page count of the others, every front-matter length, and
\* every set of assets GetGitHubFiles could not download.
SkippedOrPages(n) == [1..n -> {-1, 0} \cup RenderedPages]

RECURSIVE KeptPaths(_, _, _)
KeptPaths(exs, pg, i) ==
    IF i > Len(exs) THEN <<>>
    ELSE (IF pg[i] < 0 THEN <<>>
          ELSE <<ReceiveOutputFileStatus(<<>>, outputDir, exs[i].File).PDFPath>>)
         \o KeptPaths(exs, pg, i + 1)

RECURSIVE KeptCounts(_, _)
KeptCounts(pg, i) ==
    IF i > Len(pg) THEN <<>>
    ELSE (IF pg[i] < 0 THEN <<>> ELSE <<pg[i]>>) \o KeptCounts(pg, i + 1)

RECURSIVE ItemFiles(_, _, _)
ItemFiles(exs, pg, i) ==
    IF i > Len(exs) THEN <<>>
    ELSE LET st == ReceiveOutputFileStatus(<<>>, outputDir, exs[i].File)
             rest == ItemFiles(exs, pg, i + 1)
             html == WriteFile(rest, st.HTMLPath, HtmlFile(exs[i].Content))
         IN  IF pg[i] < 0 THEN html
             ELSE WriteFile(html, st.PDFPath, PdfFile(Pages(exs[i].File, pg[i]), <<>>))

\* The calls of the last pass of a loop in which no file of a rendered or
\* skipped example existed beforehand: a skipped example got as far as the
\* failed render.
LastCalls(exs, pg) ==
    IF Len(exs) = 0 \/ pg[Len(exs)] = 0 THEN <<>>
    ELSE <<<<"CreateHTMLFile", exs[Len(exs)].File>>, <<"HTMLToPDF", exs[Len(exs)].File>>>>

AtBookmarks(n, pg, p1, p2, measured, failing) ==
        LET exs == ExampleList(n)
            paths == KeptPaths(exs, pg, 1)
            counts == KeptCounts(pg, 1)
            F == IF measured THEN p1 ELSE IntroFallback
            toc1 == AddPageInfoToTOC(exs, 1, <<>>)
            toc2 == AddPageInfoToTOC(exs, F + 1, counts)
            d1 == WithAssets(ItemFiles(exs, pg, 1), failing)
            d2 == WriteFile(d1, Join(outputDir, "merged_examples.pdf"),
                            PdfFile(MergePages(d1, paths, 1), <<>>))
            d3 == WriteFile(WriteFile(d2, Join(outputDir, "intro.html"), HtmlFile(toc2)),
                            Join(outputDir, "intro.pdf"), PdfFile(Pages("intro", p2), <<>>))
            d4 == WriteFile(d3, Join(outputDir, "temp_with_intro.pdf"),
                      PdfFile(MergePages(d3, <<Join(outputDir, "intro.pdf"),
                                               Join(outputDir, "merged_examples.pdf")>>, 1),
                              <<>>))
        IN  /\ pc = "bookmarks"
            /\ examples = exs
            /\ disk = d4
            /\ browser = "open"
            /\ acquired = 1
            /\ idx = n + 1
            /\ pdfPaths = paths
            /\ examplePageCounts = counts
            /\ outcome = [i \in 1..n |-> IF pg[i] < 0 THEN "skipped"
                                          ELSE IF pg[i] = 0 THEN "reused"
                                          ELSE "rendered"]
            /\ introPageCount = F
            /\ introRenders = <<[toc |-> toc1, pages |-> p1, path |-> "temp_intro.pdf"],
                                [toc |-> toc2, pages |-> p2, path |-> "intro.pdf"]>>
            /\ bookmarks = <<>>
            /\ outline = ""
            /\ steps = <<"fetch", "browser">> \o [i \in 1..n |-> "item"]
                       \o <<"merge1", "tempIntro", "measure", "intro", "merge2">>
            /\ logs = {<<"ERROR", exs[i].Title>> : i \in {j \in 1..n : pg[j] < 0}}
                      \cup (IF measured THEN {} ELSE {<<"WARNING", "intro page count">>})
                      \cup {<<"WARNING", a>> : a \in failing}
            /\ lastRun = <<>>
            /\ calls = LastCalls(exs, pg)
            /\ NamingIdle
            /\ FetchIdle

InitBookmarks ==
    \E n \in 0..MaxBookmarkItems :
    \E pg \in SkippedOrPages(n) :
    \E p1 \in IntroPages :
    \E p2 \in IntroPages :
    \E measured \in BOOLEAN :
    \E failing \in {f \in SUBSET AssetNames : Cardinality(f) <= MaxFetchWarnings} :
        AtBookmarks(n, pg, p1, p2, measured, failing)

NextBookmarks ==
    \/ ApplyBookmarks
    \/ Finish

SpecBookmarks == InitBookmarks /\ [][NextBookmarks]_vars

\* The program is started again on the output directory the finished run
\* left, and GetGitHubFiles returns the same list.
Restart ==
    /\ pc = "done"
    /\ lastRun = <<>>
    /\ lastRun' = <<[F |-> introPageCount,
                      pages |-> introRenders[1].pages,
                      measured |-> <<"WARNING", "intro page count">> \notin logs]>>
    /\ pc' = "start"
    /\ browser' = "none"
    /\ acquired' = 0
    /\ idx' = 1
    /\ pdfPaths' = <<>>
    /\ examplePageCounts' = <<>>
    /\ outcome' = <<>>
    /\ introPageCount' = 0
    /\ introRenders' = <<>>
    /\ bookmarks' = <<>>
    /\ outline' = ""
    /\ steps' = <<>>
    /\ logs' = {}
    /\ calls' = <<>>
    /\ UNCHANGED <<namingVars, fetchVars, examples, disk>>

\* A first run on an output directory without example files.
InitFresh ==
    /\ Init
    /\ Len(examples) <= MaxRerunItems
    /\ \A f \in FilesOf(examples) :
          /\ ~Exists(disk, Join(outputDir, f \o ".html"))
          /\ ~Exists(disk, Join(outputDir, f \o ".pdf"))

NextRerun ==
    \/ Next
    \/ Restart

SpecRerun == InitFresh /\ [][NextRerun]_vars

\* -------------------------------------------- package naming on its own
\* The word lists WordOverlap is called with: every list, duplicates
\* included, of up to MaxWords of three words.
SomeWords == {<<"a">>, <<"b">>, <<"c">>}

WordLists == UNION {[1..n -> SomeWords] : n \in 0..MaxWords}

\* The identifiers the matcher is applied to: every string of up to
\* MaxNameLen of these characters, and some longer names.
NameChars == {"a", "A", "g", "o", "-", "\t"}

LongNames ==
    {<<"g", "o", "-", "b", "y", "-", "e", "x", "a", "m", "p", "l", "e">>,
     <<"h", "e", "l", "l", "o", "_", "w", "o", "r", "l", "d", "_",
       "e", "x", "a", "m", "p", "l", "e">>,
     <<"h", "e", "l", "l", "o", "-", "w", "o", "r", "l", "d", ".", "h", "t", "m", "l">>,
     <<".", "h", "t", "m", "l">>,
     <<"B", "y", ":", "G", "O", " ", "_">>}

Names == UNION {[1..n -> NameChars] : n \in 0..MaxNameLen} \cup LongNames

InitNaming ==
    /\ \/ /\ originalWords \in WordLists
          /\ existingWords \in WordLists
          /\ filename = <<>>
       \/ /\ originalWords = <<>>
          /\ existingWords = <<>>
          /\ filename \in Names
    /\ overlap = <<>>
    /\ selfMatch = <<>>
    /\ FetchIdle
    /\ pc = "idle"
    /\ examples = <<>>
    /\ disk = <<>>
    /\ browser = "none"
    /\ acquired = 0
    /\ idx = 1
    /\ pdfPaths = <<>>
    /\ examplePageCounts = <<>>
    /\ outcome = <<>>
    /\ introPageCount = 0
    /\ introRenders = <<>>
    /\ bookmarks = <<>>
    /\ outline = ""
    /\ steps = <<>>
    /\ logs = {}
    /\ lastRun = <<>>
    /\ calls = <<>>

\* similarity := naming.WordOverlap(words1, words2), and with the arguments
\* exchanged.
CallWordOverlap ==
    /\ overlap = <<>>
    /\ overlap' = <<WordOverlap(originalWords, existingWords),
                    WordOverlap(existingWords, originalWords)>>
    /\ UNCHANGED <<originalWords, existingWords, filename, selfMatch>>
    /\ UNCHANGED <<mainVars, fetchVars, logs, calls>>

\* The matcher of the scan applied to one identifier on both sides:
\* naming.WordOverlap(naming.ExtractWords(a), naming.ExtractWords(a)).
CallMatchSelf ==
    /\ selfMatch = <<>>
    /\ selfMatch' = <<WordOverlap(ExtractWords(filename), ExtractWords(filename))>>
    /\ UNCHANGED <<originalWords, existingWords, filename, overlap>>
    /\ UNCHANGED <<mainVars, fetchVars, logs, calls>>

NextNaming ==
    \/ CallWordOverlap
    \/ CallMatchSelf

SpecNaming == InitNaming /\ [][NextNaming]_vars

\* ------------------------------------------------------------ GetGitHubFiles
\* if naming.WordOverlap(originalWords, existingWords) >= 0.7
Threshold == Ratio(7, 10)

\* A slip: the threshold itself is not accepted.
MeetsThresholdStrict(r) == r.num * Threshold.den > Threshold.num * r.den

MeetsThreshold(r) == r.num * Threshold.den >= Threshold.num * r.den

\* regexp [^\w]+ replaced by "_": every run of other characters becomes one
\* underscore; inRun says that the character before was replaced.
RECURSIVE ReplaceNonWord(_, _)
ReplaceNonWord(s, inRun) ==
    IF s = <<>> THEN <<>>
    ELSE IF IsWordChar(Head(s)) THEN <<Head(s)>> \o ReplaceNonWord(Tail(s), FALSE)
    ELSE (IF inRun THEN <<>> ELSE <<"_">>) \o ReplaceNonWord(Tail(s), TRUE)

sanitizeFilename(title) == ReplaceNonWord(ToLower(TrimSpace(title)), FALSE)

\* The four assets, in the order they are downloaded.
Assets == <<<<"s", "i", "t", "e", ".", "c", "s", "s">>, <<"s", "i", "t", "e", ".", "j", "s">>, <<"p", "l", "a", "y", ".", "p", "n", "g">>, <<"c", "l", "i", "p", "b", "o", "a", "r", "d", ".", "p", "n", "g">>>>

\* The example names the remote directory can hold, and the other items it
\* always holds.
RemoteExamples == {<<"a", "-", "b", "-", "c">>, <<"a", "-", "b", "-", "c", "-", "d">>, <<"g", "o">>, <<"a", "-", "b", "-", "c", "-", "d", "-", "e", "-", "f", "-", "g">>}

\* An item of the remote tree: its name and its contentType.
Item(name, contentType) == [name |-> name, contentType |-> contentType]

RemoteOthers ==
    {Item(<<"s", "i", "t", "e", ".", "c", "s", "s">>, "file"), Item(<<"i", "n", "d", "e", "x", ".", "h", "t", "m", "l">>, "file"), Item(<<"i", "m", "a", "g", "e", "s">>, "directory")}

\* What downloadFile returns for a name, and what a cached file holds.
RemoteContent(name) == <<"remote", name>>

CachedContent(name) == <<"cached", name>>

\* item.ContentType == "file" && none of the five suffixes
IsExampleFile(item) ==
    /\ item.contentType = "file"
    /\ ~HasSuffix(item.name, DotHtml)
    /\ ~HasSuffix(item.name, <<".", "j", "s">>)
    /\ ~HasSuffix(item.name, <<".", "c", "s", "s">>)
    /\ ~HasSuffix(item.name, <<".", "p", "n", "g">>)
    /\ ~HasSuffix(item.name, <<".", "i", "c", "o">>)

\* GetExampleFilesFromGitHub on the items of the remote tree: filter, collect
\* the names, sort.Strings.
GetExampleFilesFromGitHub(items) ==
    SortStrings({item.name : item \in {i \in items : IsExampleFile(i)}})

\* An entry of the output directory.
FileEntry(readable, content) == [isDir |-> FALSE, readable |-> readable, content |-> content]

DirEntry == [isDir |-> TRUE, readable |-> FALSE, content |-> <<>>]

\* The entries the output directory can hold before a run.
CacheEntries ==
    {<<<<"g", "o", ".", "h", "t", "m", "l">>,
       FileEntry(TRUE, CachedContent(<<"g", "o", ".", "h", "t", "m", "l">>))>>,
     <<<<"a", "-", "b", "-", "c", ".", "h", "t", "m", "l">>,
       FileEntry(TRUE, CachedContent(<<"a", "-", "b", "-", "c", ".", "h", "t", "m", "l">>))>>,
     <<<<"a", "-", "b", "-", "c", ".", "h", "t", "m", "l">>,
       FileEntry(FALSE, CachedContent(<<"a", "-", "b", "-", "c", ".", "h", "t", "m", "l">>))>>,
     <<<<"a", "-", "b", "-", "c", "-", "d", ".", "h", "t", "m", "l">>,
       FileEntry(TRUE, CachedContent(<<"a", "-", "b", "-", "c", "-", "d", ".", "h", "t", "m", "l">>))>>,
     <<<<"a", "-", "b", "-", "c", "-", "d", ".", "h", "t", "m", "l">>,
       DirEntry>>,
     <<<<"a", "-", "b", "-", "c", "-", "d", "-", "e", "-", "f", "-", "g", "-", "h", "-", "i", "-", "j", ".", "h", "t", "m", "l">>,
       FileEntry(TRUE, CachedContent(<<"a", "-", "b", "-", "c", "-", "d", "-", "e", "-", "f", "-", "g", "-", "h", "-", "i", "-", "j", ".", "h", "t", "m", "l">>))>>}

DirOf(es) == [name \in {e[1] : e \in es} |-> (CHOOSE e \in es : e[1] = name)[2]]

CacheDirs ==
    {DirOf(es) : es \in {x \in SUBSET CacheEntries :
                            /\ Cardinality(x) <= MaxCacheEntries
                            /\ \A e \in x : \A f \in x : e[1] = f[1] => e = f}}

\* The directory a run leaves that downloaded and converted every name of
\* the listing: main wrote <File>.html and <File>.pdf for each.
AfterFirstRun(names) ==
    [entry \in {sanitizeFilename(n) \o DotHtml : n \in names}
               \cup {sanitizeFilename(n) \o <<".", "p", "d", "f">> : n \in names}
        |-> IF HasSuffix(entry, DotHtml)
            THEN FileEntry(TRUE, RemoteContent(
                     CHOOSE n \in names : sanitizeFilename(n) \o DotHtml = entry))
            ELSE FileEntry(TRUE, <<"pdf">>)]

Listings == {x \in SUBSET RemoteExamples : Cardinality(x) <= MaxListing}

\* The output directory at the start of a run: some cached entries, or what
\* a complete earlier run left.
InitialDirs == CacheDirs \cup {AfterFirstRun(names) : names \in Listings}

\* os.ReadDir: the entry names sorted by filename.
ReadDirReversed(d) ==
    LET sorted == SortStrings(DOMAIN d)
    IN  [i \in 1..Len(sorted) |-> sorted[Len(sorted) + 1 - i]]

ReadDir(d) == SortStrings(DOMAIN d)

\* The scan of the entries for one name: examined are the .html files whose
\* overlap was computed, failed those that matched and could not be read.
RECURSIVE ScanEntries(_, _, _, _, _)
ScanEntries(d, entries, words, examined, failed) ==
    IF entries = <<>>
    THEN [foundExisting |-> FALSE, entry |-> <<>>, examined |-> examined, failed |-> failed]
    ELSE LET name == Head(entries)
         IN  IF ~d[name].isDir /\ HasSuffix(name, DotHtml)
             THEN LET existingWords_ == ExtractWords(TrimSuffix(name, DotHtml))
                  IN  IF MeetsThreshold(WordOverlap(words, existingWords_))
                      THEN IF d[name].readable
                           THEN [foundExisting |-> TRUE, entry |-> name,
                                 examined |-> Append(examined, name), failed |-> failed]
                           ELSE ScanEntries(d, Tail(entries), words,
                                            Append(examined, name), Append(failed, name))
                      ELSE ScanEntries(d, Tail(entries), words,
                                       Append(examined, name), failed)
             ELSE ScanEntries(d, Tail(entries), words, examined, failed)

\* entries, err := os.ReadDir(outputDir); if err == nil { ... }
Scan(d, name, listed) ==
    IF listed THEN ScanEntries(d, ReadDir(d), ExtractWords(name), <<>>, <<>>)
    ELSE [foundExisting |-> FALSE, entry |-> <<>>, examined |-> <<>>, failed |-> <<>>]

GitHubExample(title, content, file) == [Title |-> title, Content |-> content, File |-> file]

\* A slip: the list is returned in the order of the loop.
NotSortedByTitle(exs) == {exs}

\* sort.Slice by Title; it is not stable, so examples of equal Title come out
\* in any order.
SortedByTitle(exs) ==
    {s \in [1..Len(exs) -> {exs[i] : i \in 1..Len(exs)}] :
        /\ \E p \in [1..Len(exs) -> 1..Len(exs)] :
               /\ \A i \in 1..Len(exs) : \A j \in 1..Len(exs) : p[i] = p[j] => i = j
               /\ \A i \in 1..Len(exs) : s[i] = exs[p[i]]
        /\ \A i \in 1..Len(exs) : \A j \in 1..Len(exs) :
               i < j => ~StrLess(s[j].Title, s[i].Title)}

\* The start of a run: GetGitHubFiles is called first, on output directory d.
FetchStart(d) ==
    /\ ghpc = "assets"
    /\ exampleFiles = <<>>
    /\ dir = d
    /\ fileIdx = 1
    /\ ghExamples = <<>>
    /\ decisions = <<>>
    /\ errors = {}
    /\ NamingIdle
    /\ pc = "start"
    /\ examples = <<>>
    /\ disk = <<>>
    /\ browser = "none"
    /\ acquired = 0
    /\ idx = 1
    /\ pdfPaths = <<>>
    /\ examplePageCounts = <<>>
    /\ outcome = <<>>
    /\ introPageCount = 0
    /\ introRenders = <<>>
    /\ bookmarks = <<>>
    /\ outline = ""
    /\ steps = <<>>
    /\ logs = {}
    /\ lastRun = <<>>
    /\ calls = <<>>

InitFetch == \E d \in InitialDirs : FetchStart(d)

\* for _, asset := range assets: downloadAsset writes the file, or fails and
\* a warning is logged; any of the four can fail.
DownloadAssets ==
    /\ ghpc = "assets"
    /\ \E failing \in SUBSET {Assets[i] : i \in 1..Len(Assets)} :
          /\ Cardinality(failing) <= MaxAssetFailures
          /\ dir' = [name \in (DOMAIN dir) \cup ({Assets[i] : i \in 1..Len(Assets)} \ failing)
                        |-> IF name \in {Assets[i] : i \in 1..Len(Assets)} \ failing
                            THEN FileEntry(TRUE, RemoteContent(name))
                            ELSE dir[name]]
          /\ logs' = logs \cup {<<"WARNING", Str(name)>> : name \in failing}
          /\ errors' = errors \cup {<<"asset", name>> : name \in failing}
    /\ ghpc' = "list"
    /\ UNCHANGED <<exampleFiles, fileIdx, ghExamples, decisions>>
    /\ UNCHANGED <<mainVars, namingVars, calls>>

\* exampleFiles, err := GetExampleFilesFromGitHub(); an error is returned to
\* main.
ListExamplesOf(listings) ==
    /\ ghpc = "list"
    /\ \/ \E names \in listings :
             /\ exampleFiles' = GetExampleFilesFromGitHub(
                                     {Item(n, "file") : n \in names} \cup RemoteOthers)
             /\ ghpc' = "loop"
       \/ /\ exampleFiles' = exampleFiles
          /\ ghpc' = "failed"
    /\ UNCHANGED <<dir, fileIdx, ghExamples, decisions, errors>>
    /\ UNCHANGED <<mainVars, namingVars, logs, calls>>

ListExamples == ListExamplesOf(Listings)

\* A slip: a failed download ends GetGitHubFiles with an error.
SkipFileReturnsError(name, scan, listed) ==
    /\ ghExamples' = ghExamples
    /\ decisions' = Append(decisions, [filename |-> name, listed |-> listed,
                                       examined |-> scan.examined, kind |-> "skip",
                                       entry |-> <<>>])
    /\ logs' = logs \cup {<<"WARNING", Str(e)>> : e \in WordSet(scan.failed)}
                    \cup {<<"WARNING", Str(name)>>}
    /\ ghpc' = "failed"

\* downloadFile failed: log.Printf("[WARNING] Failed to download ..."); continue
SkipFile(name, scan, listed) ==
    /\ ghExamples' = ghExamples
    /\ decisions' = Append(decisions, [filename |-> name, listed |-> listed,
                                       examined |-> scan.examined, kind |-> "skip",
                                       entry |-> <<>>])
    /\ logs' = logs \cup {<<"WARNING", Str(e)>> : e \in WordSet(scan.failed)}
                    \cup {<<"WARNING", Str(name)>>}
    /\ ghpc' = "loop"

\* A slip: the adopted content goes under the listed name.
AdoptedExampleAsListed(name, entry, content) ==
    GitHubExample(name, content, sanitizeFilename(name))

\* if foundExisting: Title and File are the adopted file's name without
\* ".html", Content is what was read from it; the listed name is not used.
AdoptedExample(name, entry, content) ==
    GitHubExample(TrimSuffix(entry, DotHtml), content, TrimSuffix(entry, DotHtml))

\* One pass of the body of "for _, filename := range exampleFiles".
ReconcileFile ==
    /\ ghpc = "loop"
    /\ fileIdx <= Len(exampleFiles)
    /\ \E listed \in BOOLEAN : \E scan \in {Scan(dir, exampleFiles[fileIdx], listed)} :
          LET name == exampleFiles[fileIdx]
              scanErrors == (IF listed THEN {} ELSE {<<"ReadDir", name>>})
                            \cup {<<"ReadFile", e>> : e \in WordSet(scan.failed)}
          IN  IF scan.foundExisting
              THEN     /\ ghExamples' = Append(ghExamples,
                              AdoptedExample(name, scan.entry, dir[scan.entry].content))
                       /\ decisions' = Append(decisions,
                              [filename |-> name, listed |-> listed,
                               examined |-> scan.examined, kind |-> "reuse",
                               entry |-> scan.entry])
                       /\ logs' = logs \cup {<<"WARNING", Str(e)>> : e \in WordSet(scan.failed)}
                       /\ errors' = errors \cup scanErrors
                       /\ ghpc' = "loop"
              ELSE \* htmlContent, err = downloadFile(url)
                   /\ \/ /\ ghExamples' = Append(ghExamples,
                                GitHubExample(name, RemoteContent(name),
                                              sanitizeFilename(name)))
                         /\ decisions' = Append(decisions,
                                [filename |-> name, listed |-> listed,
                                 examined |-> scan.examined, kind |-> "download",
                                 entry |-> <<>>])
                         /\ logs' = logs \cup {<<"WARNING", Str(e)>>
                                                 : e \in WordSet(scan.failed)}
                         /\ errors' = errors \cup scanErrors
                         /\ ghpc' = "loop"
                      \/ /\ SkipFile(name, scan, listed)
                         /\ errors' = errors \cup scanErrors \cup {<<"downloadFile", name>>}
    /\ fileIdx' = fileIdx + 1
    /\ UNCHANGED <<exampleFiles, dir>>
    /\ UNCHANGED <<mainVars, namingVars, calls>>

\* sort.Slice(examples, ...); return examples, nil
SortAndReturn ==
    /\ ghpc = "loop"
    /\ fileIdx > Len(exampleFiles)
    /\ ghExamples' \in SortedByTitle(ghExamples)
    /\ ghpc' = "returned"
    /\ UNCHANGED <<exampleFiles, dir, fileIdx, decisions, errors>>
    /\ UNCHANGED <<mainVars, namingVars, logs, calls>>

NextFetch ==
    \/ DownloadAssets
    \/ ListExamples
    \/ ReconcileFile
    \/ SortAndReturn

SpecFetch == InitFetch /\ [][NextFetch]_vars

\* ------------------------------------------- GetGitHubFiles, then main's rest
\* A whole run: main calls GetGitHubFiles on the output directory and goes on
\* with the list it returns.  The output directories and remote listings of
\* these runs:
RunDirs ==
    {<<>>,
     DirOf({<<<<"h", "e", "l", "l", "o", "-", "w", "o", "r", "l", "d", ".", "h", "t", "m", "l">>, FileEntry(TRUE, CachedContent(<<"h", "e", "l", "l", "o", "-", "w", "o", "r", "l", "d", ".", "h", "t", "m", "l">>))>>}),
     DirOf({<<<<"c", "-", "b", "-", "a", ".", "h", "t", "m", "l">>, FileEntry(TRUE, CachedContent(<<"c", "-", "b", "-", "a", ".", "h", "t", "m", "l">>))>>})}

RunListings ==
    {{<<"h", "e", "l", "l", "o", "_", "w", "o", "r", "l", "d", "_", "e", "x", "a", "m", "p", "l", "e">>, <<"G", "o", ":", "H", "e", "l", "l", "o", " ", "W", "O", "R", "L", "D">>},
     {<<"a", "-", "b", "-", "c">>, <<"a", "-", "b", "-", "c", "-", "d">>},
     {<<"a", "-", "b", "-", "c">>, <<"a", "-", "b", "-", "c", "-", "d", "-", "e", "-", "f", "-", "g">>}}

\* The files main finds in the output directory GetGitHubFiles worked on: a
\* PDF an earlier run left has one page.
DiskOf(d) ==
    [path \in {Join(outputDir, Str(name)) : name \in DOMAIN d}
        |-> LET name == CHOOSE n \in DOMAIN d : Join(outputDir, Str(n)) = path
            IN  IF d[name].isDir THEN [kind |-> "dir", body |-> <<>>, marks |-> <<>>]
                ELSE IF HasSuffix(name, <<".", "p", "d", "f">>)
                     THEN PdfFile(Pages(Str(TrimSuffix(name, <<".", "p", "d", "f">>)), 1), <<>>)
                     ELSE HtmlFile(d[name].content)]

\* The []Example main receives.
MainExamples(exs) ==
    [i \in 1..Len(exs) |-> [Title |-> Str(exs[i].Title),
                             Content |-> exs[i].Content,
                             File |-> Str(exs[i].File)]]

InitRun == \E d \in RunDirs : FetchStart(d)

ListRunExamples == ListExamplesOf(RunListings)

\* examples, err := github.GetGitHubFiles(outputDir)
\* if err != nil { log.Fatalf(...) }
ReturnToMain ==
    /\ pc = "start"
    /\ ghpc \in {"returned", "failed"}
    /\ IF ghpc = "failed"
       THEN /\ Fatal("fetch", "examples")
            /\ disk' = DiskOf(dir)
            /\ examples' = examples
       ELSE /\ examples' = MainExamples(ghExamples)
            /\ disk' = DiskOf(dir)
            /\ pc' = "browser"
            /\ steps' = Append(steps, "fetch")
            /\ UNCHANGED <<logs, browser>>
    /\ UNCHANGED <<namingVars, fetchVars, calls>>
    /\ UNCHANGED <<lastRun, acquired, idx, pdfPaths, examplePageCounts, outcome,
                   introPageCount, introRenders, bookmarks, outline>>

NextRun ==
    \/ DownloadAssets
    \/ ListRunExamples
    \/ ReconcileFile
    \/ SortAndReturn
    \/ ReturnToMain
    \/ PrepHeadlessBrowser
    \/ ProcessExample
    \/ MergeExamples
    \/ RenderTempIntro
    \/ MeasureIntro
    \/ RenderIntro
    \/ MergeIntro
    \/ ApplyBookmarks
    \/ Finish

SpecRun == InitRun /\ [][NextRun]_vars

TypeOK ==
    /\ pc \in {"idle", "start", "browser", "loop", "tempIntro", "measure", "intro",
               "merge2", "bookmarks", "finish", "done", "fatal", "panic", "renderPanic",
               "connectPanic", "mergePanic"}
    /\ browser \in {"none", "open", "closed"}
    /\ idx \in 1..(Len(examples) + 1)
    /\ Len(pdfPaths) = Len(examplePageCounts)
    /\ Len(outcome) = idx - 1

\* ------------------------------------------------------------------ claims
RECURSIVE SumFirst(_, _)
SumFirst(counts, k) == IF k = 0 THEN 0 ELSE SumFirst(counts, k - 1) + counts[k]

ItemBookmark(k) == bookmarks[k + 1]

Skipped == {i \in 1..Len(outcome) : outcome[i] = "skipped"}

\* The place of example k's page count in examplePageCounts.
CountIndex(k) == Cardinality({i \in 1..k : outcome[i] # "skipped"})

\* The pages of the examples before k that are part of the merged document.
RECURSIVE PagesBefore(_)
PagesBefore(k) ==
    IF k <= 1 THEN 0
    ELSE PagesBefore(k - 1)
         + (IF (k - 1) \in Skipped THEN 0 ELSE examplePageCounts[CountIndex(k - 1)])

\* Step b is never taken without step a before it.
Before(a, b) ==
    \A j \in 1..Len(steps) : steps[j] = b => \E i \in 1..(j - 1) : steps[i] = a

ItemStepsBefore(j) == Cardinality({i \in 1..(j - 1) : steps[i] = "item"})

FrontMatterResolved == pc \in {"merge2", "bookmarks", "finish", "done", "panic"}

MeasureFailed(l) == <<"WARNING", "intro page count">> \in l

TitlesOf(toc) == [k \in 1..Len(toc) |-> toc[k].title]

\* The combined document of this run, where one exists; before the second
\* merge temp_with_intro.pdf can only be a file an earlier run left.
Combined ==
    IF pc = "merge2" THEN <<>>
    ELSE IF Exists(disk, Join(outputDir, "temp_with_intro.pdf"))
    THEN <<disk[Join(outputDir, "temp_with_intro.pdf")].body>>
    ELSE IF Exists(disk, finalPdf) /\ pc \in {"finish", "done"}
         THEN <<disk[finalPdf].body>>
         ELSE <<>>

\* C1: whenever ApplyBookmarks has built its bookmarks, the bookmark of item k
\* has PageFrom = F + 1 + p_1 + ... + p_(k-1) and PageThru = PageFrom + p_k - 1;
\* the first item starts at F + 1 and each item starts one page after the
\* previous item's PageThru.
C1_PageRanges ==
    bookmarks # <<>> =>
        \A k \in 1..Len(examples) :
            /\ ItemBookmark(k).PageFrom
                   = introPageCount + 1 + SumFirst(examplePageCounts, k - 1)
            /\ ItemBookmark(k).PageThru
                   = ItemBookmark(k).PageFrom + examplePageCounts[k] - 1
            /\ (k = 1 => ItemBookmark(k).PageFrom = introPageCount + 1)
            /\ (k < Len(examples) =>
                    ItemBookmark(k + 1).PageFrom = ItemBookmark(k).PageThru + 1)

C1_Witness ==
    /\ Len(bookmarks) = 4
    /\ examplePageCounts[1] = 2
    /\ examplePageCounts[2] = 1
    /\ ItemBookmark(3).PageFrom = introPageCount + 4

\* C2: a run in which one item failed to render while another was kept does
\* not end in a panic.
C2_RenderFailureDoesNotAbort ==
    (Skipped # {} /\ Skipped # 1..Len(outcome)) => pc # "panic"

\* C3: every bookmark the run emits has PageThru >= PageFrom and the ranges of
\* different bookmarks do not overlap, whatever page counts were reported.
C3_RangesWellFormed ==
    /\ \A k \in 1..Len(bookmarks) : bookmarks[k].PageThru >= bookmarks[k].PageFrom
    /\ \A k \in 1..Len(bookmarks) : \A j \in 1..Len(bookmarks) :
           k < j => bookmarks[k].PageThru < bookmarks[j].PageFrom

\* C4: ApplyBookmarks builds n + 1 bookmarks for n items: the front-matter
\* bookmark (1, IntroPageCount) first, then one per item in list order, the
\* k-th titled "k. <title>" with k counted from 1; three items with page
\* counts 1, 2, 1 and F = 2 give the ranges (1,2), (3,3), (4,5), (6,6).
C4_BookmarkList ==
    bookmarks # <<>> =>
        /\ Len(bookmarks) = Len(examples) + 1
        /\ bookmarks[1] = [Title |-> "Introduction & Table of Contents",
                           PageFrom |-> 1, PageThru |-> introPageCount]
        /\ \A k \in 1..Len(examples) :
               ItemBookmark(k).Title = ToString(k) \o ". " \o examples[k].Title
        /\ (/\ TitlesOf([k \in 1..Len(examples) |-> [title |-> examples[k].Title]])
                  = <<"arrays", "channels", "goroutines">>
            /\ examplePageCounts = <<1, 2, 1>>
            /\ introPageCount = 2)
           => bookmarks =
                <<[Title |-> "Introduction & Table of Contents", PageFrom |-> 1, PageThru |-> 2],
                  [Title |-> "1. arrays", PageFrom |-> 3, PageThru |-> 3],
                  [Title |-> "2. channels", PageFrom |-> 4, PageThru |-> 5],
                  [Title |-> "3. goroutines", PageFrom |-> 6, PageThru |-> 6]>>

C4_Witness ==
    /\ Len(bookmarks) = 4
    /\ examplePageCounts = <<1, 2, 1>>
    /\ introPageCount = 2
    /\ bookmarks[3].Title = "2. channels"
    /\ examples[1].Title = "arrays"
    /\ examples[3].Title = "goroutines"

\* C5: the retained front-matter render prints, for every item that is part
\* of the book, its real starting page: F + 1 plus the pages of the items
\* merged before it; and it is the PageFrom of the item's bookmark in every
\* run that reached bookmark application.
C5_TocListsRealStart ==
    Len(introRenders) = 2 =>
        /\ \A k \in 1..Len(examples) :
               k \notin Skipped =>
                   introRenders[2].toc[k].page = introPageCount + 1 + PagesBefore(k)
        /\ pc \in {"finish", "done", "panic"} =>
               /\ bookmarks # <<>>
               /\ \A k \in 1..Len(examples) :
                      introRenders[2].toc[k].page = ItemBookmark(k).PageFrom

\* C6 as claimed: once the front matter is resolved it was rendered exactly
\* twice, first with the numbers 1, 2, 3, ..., both times with the same entries
\* in the same order; the placeholder files are gone and the combined document
\* starts with the second render; if both renders have the same page count the
\* retained front matter has exactly F pages, and a second run with the same
\* placeholder page count yields the same F.
C6_TwoPassFixedPoint ==
    FrontMatterResolved =>
        /\ Len(introRenders) = 2
        /\ \A k \in 1..Len(examples) : introRenders[1].toc[k].page = k
        /\ TitlesOf(introRenders[1].toc) = TitlesOf(introRenders[2].toc)
        /\ TitlesOf(introRenders[2].toc) = [k \in 1..Len(examples) |-> examples[k].Title]
        /\ ~Exists(disk, Join(outputDir, "temp_intro.pdf"))
        /\ ~Exists(disk, Join(outputDir, "temp_intro.html"))
        /\ \A i \in 1..Len(Combined) :
               /\ SubSeq(Combined[i], 1, introRenders[2].pages)
                      = Pages("intro", introRenders[2].pages)
               /\ \A j \in 1..Len(Combined[i]) : Combined[i][j].src # "temp_intro"
        /\ (introRenders[1].pages = introRenders[2].pages
               => introRenders[2].pages = introPageCount)
        /\ (lastRun # <<>> /\ lastRun[1].pages = introRenders[1].pages
               => introPageCount = lastRun[1].F)

\* C6 as amended: the front matter is rendered exactly twice, first with the
\* numbers 1, 2, 3, ..., both times with the same entries in the same order; a
\* placeholder file is left in place only when its removal failed and was
\* logged, and the combined document starts with the second render.  F is the
\* page count of the placeholder render when that count could be read, and
\* the fallback 2 when it could not, in this run and in the run before: so
\* with the same page count in both renders the retained front matter has
\* exactly F pages when F was read, and a second run with the same placeholder
\* page count yields the same F when F was read in both runs.
C6_TwoPassFixedPointMeasured ==
    FrontMatterResolved =>
        /\ Len(introRenders) = 2
        /\ \A k \in 1..Len(examples) : introRenders[1].toc[k].page = k
        /\ TitlesOf(introRenders[1].toc) = TitlesOf(introRenders[2].toc)
        /\ TitlesOf(introRenders[2].toc) = [k \in 1..Len(examples) |-> examples[k].Title]
        /\ \A f \in {"temp_intro.pdf", "temp_intro.html"} :
               ~Exists(disk, Join(outputDir, f)) \/ <<"INFO", f>> \in logs
        /\ \A i \in 1..Len(Combined) :
               /\ SubSeq(Combined[i], 1, introRenders[2].pages)
                      = Pages("intro", introRenders[2].pages)
               /\ \A j \in 1..Len(Combined[i]) : Combined[i][j].src # "temp_intro"
        /\ introPageCount = (IF MeasureFailed(logs) THEN IntroFallback
                              ELSE introRenders[1].pages)
        /\ lastRun # <<>> =>
               lastRun[1].F = (IF lastRun[1].measured THEN lastRun[1].pages
                               ELSE IntroFallback)
        /\ (introRenders[1].pages = introRenders[2].pages /\ ~MeasureFailed(logs)
               => introRenders[2].pages = introPageCount)
        /\ ((/\ lastRun # <<>>
             /\ lastRun[1].pages = introRenders[1].pages
             /\ ~MeasureFailed(logs)
             /\ lastRun[1].measured)
               => introPageCount = lastRun[1].F)

C6_Witness ==
    /\ lastRun # <<>>
    /\ pc = "done"
    /\ Len(examples) = 2
    /\ TitlesOf(introRenders[1].toc) = <<examples[1].Title, examples[2].Title>>
    /\ examples[1].Title # examples[2].Title
    /\ introRenders[1].toc[2].page = 2
    /\ introRenders[2].toc[2].page > 4
    /\ ~MeasureFailed(logs)
    /\ lastRun[1].measured
    /\ lastRun[1].pages = 3
    /\ introRenders[1].pages = 3
    /\ introRenders[2].pages = 3
    /\ lastRun[1].F = 3
    /\ introPageCount = 3
    /\ introRenders[1].toc[1].page = 1
    /\ introRenders[2].toc[1].page = 4

\* C7: when api.AddBookmarksFile fails and the rename succeeds, ApplyBookmarks
\* returns no error and the final file is the merged document without an
\* outline, the temporary file having been renamed; the run ends fatally in
\* ApplyBookmarks only when the rename failed.
C7_OutlineFallback ==
    /\ outline = "fallback" =>
           /\ pc \in {"finish", "done"}
           /\ Exists(disk, finalPdf)
           /\ disk[finalPdf].marks = <<>>
           /\ disk[finalPdf].body
                  = Pages("intro", introRenders[2].pages) \o MergePages(disk, pdfPaths, 1)
           /\ ~Exists(disk, Join(outputDir, "temp_with_intro.pdf"))
    /\ (pc = "fatal" /\ steps[Len(steps)] = "bookmarks") => outline = "failed"
    /\ outline = "failed" =>
           /\ ~Exists(disk, finalPdf)
           /\ Exists(disk, Join(outputDir, "temp_with_intro.pdf"))

C7_Witness ==
    /\ outline = "fallback"
    /\ pc = "done"
    /\ Len(disk[finalPdf].body) >= 4
    /\ <<"WARNING", "bookmarks">> \in logs

\* C8: the browser is acquired at most once, and every way the run ends after
\* the browser was acquired has closed it.
C8_BrowserReleased ==
    /\ acquired <= 1
    /\ (pc \in {"done", "fatal", "panic", "renderPanic", "mergePanic"} /\ acquired > 0)
           => browser = "closed"

\* C9 as claimed: every item has gone through the loop before a page number
\* is computed, the front matter is measured and rendered before any merge
\* call, and both merge calls are over before bookmark application.
C9_PipelineOrder ==
    /\ \A j \in 1..Len(steps) :
           steps[j] \in {"tempIntro", "intro", "bookmarks"}
               => ItemStepsBefore(j) = Len(examples)
    /\ Before("measure", "merge1")
    /\ Before("intro", "merge1")
    /\ Before("measure", "merge2")
    /\ Before("intro", "merge2")
    /\ Before("merge1", "bookmarks")
    /\ Before("merge2", "bookmarks")

\* C9 as amended: every item has gone through the loop before a page number
\* is computed; the item PDFs are merged before the front matter is resolved;
\* the front matter is measured and rendered before the merge of intro.pdf
\* with the merged examples; both merge calls are over before bookmark
\* application.
C9_PipelineOrderAsBuilt ==
    /\ \A j \in 1..Len(steps) :
           steps[j] \in {"merge1", "tempIntro", "intro", "bookmarks"}
               => ItemStepsBefore(j) = Len(examples)
    /\ Before("merge1", "tempIntro")
    /\ Before("tempIntro", "measure")
    /\ Before("measure", "intro")
    /\ Before("measure", "merge2")
    /\ Before("intro", "merge2")
    /\ Before("merge1", "bookmarks")
    /\ Before("merge2", "bookmarks")

C9_Witness ==
    /\ pc = "done"
    /\ Len(examples) = 2
    /\ steps = <<"fetch", "browser", "item", "item", "merge1", "tempIntro",
                 "measure", "intro", "merge2", "bookmarks", "finish">>

\* C10: after a failed merge call the run has ended at that call: bookmark
\* application was not attempted and no final file exists.
C10_MergeFailureFatal ==
    (<<"ERROR", "merge examples">> \in logs \/ <<"ERROR", "merge intro">> \in logs) =>
        /\ pc = "fatal"
        /\ steps[Len(steps)] \in {"merge1", "merge2"}
        /\ \A j \in 1..Len(steps) : steps[j] # "bookmarks"
        /\ bookmarks = <<>>
        /\ outline = ""
        /\ ~Exists(disk, finalPdf)

C10_Witness ==
    /\ pc = "fatal"
    /\ <<"ERROR", "merge intro">> \in logs
    /\ Len(pdfPaths) >= 2
    /\ Exists(disk, Join(outputDir, "merged_examples.pdf"))

\* The Jaccard reference: |set(A) n set(B)| / |set(A) u set(B)|, and 0 when a
\* list is empty.
Jaccard(A, B) ==
    IF A = <<>> \/ B = <<>> THEN Ratio(0, 1)
    ELSE Ratio(Cardinality(WordSet(A) \cap WordSet(B)),
               Cardinality(WordSet(A) \cup WordSet(B)))

\* Two quotients are the same number.
SameRatio(r, q) == r.den > 0 /\ q.den > 0 /\ r.num * q.den = q.num * r.den

IsOne(r) == r.den > 0 /\ r.num = r.den

IsZero(r) == r.den > 0 /\ r.num = 0

\* C11: WordOverlap(A, B) is the Jaccard reference of the two lists taken as
\* sets, is 0.0 when a list is empty, lies in [0, 1], and equals
\* WordOverlap(B, A).
C11_WordOverlapIsJaccard ==
    overlap # <<>> =>
        /\ SameRatio(overlap[1], Jaccard(originalWords, existingWords))
        /\ (originalWords = <<>> \/ existingWords = <<>>) => IsZero(overlap[1])
        /\ 0 <= overlap[1].num
        /\ overlap[1].num <= overlap[1].den
        /\ SameRatio(overlap[1], overlap[2])

C11_Witness ==
    /\ overlap # <<>>
    /\ originalWords = <<<<"a">>, <<"a">>, <<"b">>>>
    /\ existingWords = <<<<"b">>, <<"c">>>>
    /\ overlap[1] = Ratio(1, 3)
    /\ overlap[2] = Ratio(1, 3)

\* The identifier, without a trailing ".html", holds a run of characters
\* between separators that is, trimmed and in lower case, neither empty nor
\* one of "go", "by", "example".
HasMeaningfulWord(a) ==
    LET b == TrimSuffix(a, DotHtml)
    IN  \E i \in 1..Len(b) : \E j \in i..Len(b) :
            /\ \A k \in i..j : ~IsSeparator(b[k])
            /\ (i = 1 \/ IsSeparator(b[i - 1]))
            /\ (j = Len(b) \/ IsSeparator(b[j + 1]))
            /\ ToLower(TrimSpace(SubSeq(b, i, j)))
                   \notin {<<>>, <<"g", "o">>, <<"b", "y">>,
                           <<"e", "x", "a", "m", "p", "l", "e">>}

\* C12 as claimed: the matcher applied to (a, a) gives 1.0 for every
\* non-empty identifier a and 0.0 for the empty identifier.
C12_SelfMatch ==
    selfMatch # <<>> =>
        /\ (filename # <<>> => IsOne(selfMatch[1]))
        /\ (filename = <<>> => IsZero(selfMatch[1]))

\* C12 as built: the matcher applied to (a, a) gives 1.0 for every identifier
\* that holds a word other than the common words, and 0.0 for every other
\* identifier, the empty one included.
C12_SelfMatchOfWords ==
    selfMatch # <<>> =>
        /\ (HasMeaningfulWord(filename) => IsOne(selfMatch[1]))
        /\ (~HasMeaningfulWord(filename) => IsZero(selfMatch[1]))
        /\ (filename = <<>> => IsZero(selfMatch[1]))

C12_Witness ==
    /\ selfMatch # <<>>
    /\ filename = <<"h", "e", "l", "l", "o", "_", "w", "o", "r", "l", "d", "_",
                    "e", "x", "a", "m", "p", "l", "e">>
    /\ selfMatch[1] = Ratio(2, 2)

\* The .html files of a directory, the only entries the scan looks at.
HtmlFiles(d) == {e \in DOMAIN d : ~d[e].isDir /\ HasSuffix(e, DotHtml)}

\* The similarity of a word list and a cached file's identifier, and of a
\* canonical id and a cached file's identifier.
SimilarityOfWords(words, entry) ==
    WordOverlap(words, ExtractWords(TrimSuffix(entry, DotHtml)))

Similarity(name, entry) == SimilarityOfWords(ExtractWords(name), entry)

AtLeastSevenTenths(r) == r.den > 0 /\ 10 * r.num >= 7 * r.den

\* The cached files that can be adopted for a name.
Candidates(d, name) ==
    LET words == ExtractWords(name)
    IN  {e \in HtmlFiles(d) : d[e].readable /\ AtLeastSevenTenths(SimilarityOfWords(words, e))}

Decided == {decisions[k] : k \in 1..Len(decisions)}

\* The decision of the last pass of the loop; the directory does not change
\* while the loop runs, so every decision is the last one in the state its
\* pass leads to.
LastDecided == IF decisions = <<>> THEN {} ELSE {decisions[Len(decisions)]}

Fetched(t) == t.kind \in {"download", "skip"}

\* C13: an item whose canonical id is the identifier of a cached file that
\* was listed and can be read is given that file: no download, and the file
\* adopted is that one.
C13_IdenticalIdReused ==
    \A t \in Decided :
        LET own == t.filename \o DotHtml
        IN  (t.listed /\ own \in HtmlFiles(dir) /\ dir[own].readable)
                => (~Fetched(t) /\ t.entry = own)

\* C14: a cached file is adopted only at a similarity of 7/10 or more; an
\* examined file is the one adopted exactly when its similarity is 7/10 or
\* more and it can be read; when every .html file is below 7/10 the item is
\* downloaded and nothing of the cache is adopted.
C14_ThresholdSevenTenths ==
    \A t \in LastDecided : \E words \in {ExtractWords(t.filename)} :
        /\ t.kind = "reuse" => AtLeastSevenTenths(SimilarityOfWords(words, t.entry))
        /\ \A i \in 1..Len(t.examined) :
               (t.kind = "reuse" /\ t.entry = t.examined[i])
                   <=> (/\ dir[t.examined[i]].readable
                        /\ AtLeastSevenTenths(SimilarityOfWords(words, t.examined[i])))
        /\ (\A e \in HtmlFiles(dir) : ~AtLeastSevenTenths(SimilarityOfWords(words, e)))
               => /\ Fetched(t)
                  /\ t.entry = <<>>
                  /\ \A i \in 1..Len(ghExamples) :
                         ghExamples[i].Title = t.filename
                             => ghExamples[i].Content = RemoteContent(t.filename)

C14_Witness ==
    \E t \in Decided :
        /\ t.filename = <<"a", "-", "b", "-", "c", "-", "d", "-", "e", "-", "f", "-", "g">>
        /\ t.kind = "reuse"
        /\ t.entry = <<"a", "-", "b", "-", "c", "-", "d", "-", "e", "-", "f", "-", "g", "-", "h", "-", "i", "-", "j", ".", "h", "t", "m", "l">>
        /\ Similarity(t.filename, t.entry) = Ratio(7, 10)

\* C15: when the directory was listed, the file adopted for an item is the
\* first, in the sorted order of the names, of the .html files that reach
\* 7/10 and can be read, so it is determined by the directory content and the
\* name; no file after it is examined, and the files are examined in sorted
\* order.
C15_FirstMatchWins ==
    \A t \in LastDecided : \E cands \in {Candidates(dir, t.filename)} :
        t.listed =>
            /\ cands # {} =>
                   /\ t.kind = "reuse"
                   /\ t.entry \in cands
                   /\ \A f \in cands \ {t.entry} : StrLess(t.entry, f)
            /\ cands = {} => t.kind # "reuse"
            /\ t.kind = "reuse" =>
                   \A e \in HtmlFiles(dir) :
                       (\E i \in 1..Len(t.examined) : t.examined[i] = e)
                           <=> ~StrLess(t.entry, e)
            /\ \A i \in 1..Len(t.examined) : \A j \in 1..Len(t.examined) :
                   i < j => StrLess(t.examined[i], t.examined[j])

C15_Witness ==
    \E t \in Decided :
        /\ t.filename = <<"a", "-", "b", "-", "c">>
        /\ t.kind = "reuse"
        /\ t.entry = <<"a", "-", "b", "-", "c", "-", "d", ".", "h", "t", "m", "l">>
        /\ <<"a", "-", "b", "-", "c", ".", "h", "t", "m", "l">> \in Candidates(dir, t.filename)
        /\ t.examined = <<<<"a", "-", "b", "-", "c", "-", "d", ".", "h", "t", "m", "l">>>>

\* C16 as claimed: a pass of the loop for an example whose HTML and PDF both
\* exist calls neither CreateHTMLFile nor HTMLToPDF, leaves every file as it
\* is, and appends the PDF's path and the PDF's page count.
C16_BothExistReused ==
    [][(/\ pc = "loop"
        /\ idx <= Len(examples)
        /\ idx' = idx + 1
        /\ ReceiveOutputFileStatus(disk, outputDir, examples[idx].File).HTMLExists
        /\ ReceiveOutputFileStatus(disk, outputDir, examples[idx].File).PDFExists)
       => LET st == ReceiveOutputFileStatus(disk, outputDir, examples[idx].File)
          IN  /\ calls' = <<>>
              /\ disk' = disk
              /\ pdfPaths' = Append(pdfPaths, st.PDFPath)
              /\ examplePageCounts'
                     = Append(examplePageCounts, Len(disk[st.PDFPath].body))]_vars

\* C16 as built: the same, where the count appended is the PDF's page count
\* or, when the page count could not be read, 1 with a warning that names the
\* example.
C16_BothExistReusedOrFallback ==
    [][(/\ pc = "loop"
        /\ idx <= Len(examples)
        /\ idx' = idx + 1
        /\ ReceiveOutputFileStatus(disk, outputDir, examples[idx].File).HTMLExists
        /\ ReceiveOutputFileStatus(disk, outputDir, examples[idx].File).PDFExists)
       => LET st == ReceiveOutputFileStatus(disk, outputDir, examples[idx].File)
          IN  /\ calls' = <<>>
              /\ disk' = disk
              /\ pdfPaths' = Append(pdfPaths, st.PDFPath)
              /\ \/ /\ examplePageCounts'
                          = Append(examplePageCounts, Len(disk[st.PDFPath].body))
                    /\ logs' = logs
                 \/ /\ examplePageCounts' = Append(examplePageCounts, 1)
                    /\ <<"WARNING", examples[idx].Title>> \in logs']_vars

C16_Witness ==
    /\ pc = "loop"
    /\ idx = 2
    /\ outcome = <<"reused">>
    /\ calls = <<>>
    /\ pdfPaths = <<Join(outputDir, examples[1].File \o ".pdf")>>
    /\ examplePageCounts = <<Len(disk[pdfPaths[1]].body)>>
    /\ examplePageCounts[1] >= 1
    /\ Exists(disk, Join(outputDir, examples[1].File \o ".html"))
    /\ logs = {}

\* C17: an item whose HTML file exists in the listed directory, can be read,
\* and whose PDF does not exist is not downloaded.
C17_PartialStateSkipsFetch ==
    \A t \in Decided :
        LET html == sanitizeFilename(t.filename) \o DotHtml
            pdf == sanitizeFilename(t.filename) \o <<".", "p", "d", "f">>
        IN  (/\ t.listed
             /\ html \in HtmlFiles(dir)
             /\ dir[html].readable
             /\ pdf \notin DOMAIN dir)
                => ~Fetched(t)

\* The directory holds what a first run left that downloaded and converted
\* every name of the listing.
FirstRunLeft ==
    /\ HtmlFiles(dir) = {sanitizeFilename(exampleFiles[i]) \o DotHtml
                             : i \in 1..Len(exampleFiles)}
    /\ \A i \in 1..Len(exampleFiles) :
        LET html == sanitizeFilename(exampleFiles[i]) \o DotHtml
            pdf == sanitizeFilename(exampleFiles[i]) \o <<".", "p", "d", "f">>
        IN  /\ html \in HtmlFiles(dir)
            /\ dir[html].readable
            /\ dir[html].content = RemoteContent(exampleFiles[i])
            /\ pdf \in DOMAIN dir

\* C18: in a run on the directory a complete first run left, with the same
\* listing, no item is downloaded and every item is given the file written
\* for it.
C18_SecondRunFetchesNothing ==
    (/\ ghpc = "returned"
     /\ FirstRunLeft
     /\ \A t \in Decided : t.listed)
        => \A t \in Decided :
               /\ ~Fetched(t)
               /\ t.entry = sanitizeFilename(t.filename) \o DotHtml

\* The examples of the items that were not skipped, in the order of the loop.
RECURSIVE KeptExamples(_)
KeptExamples(k) ==
    IF k = 0 THEN <<>>
    ELSE KeptExamples(k - 1)
         \o (IF decisions[k].kind = "skip" THEN <<>>
             ELSE IF decisions[k].kind = "download"
                  THEN <<[Title |-> decisions[k].filename,
                          Content |-> RemoteContent(decisions[k].filename),
                          File |-> sanitizeFilename(decisions[k].filename)]>>
                  ELSE <<[Title |-> TrimSuffix(decisions[k].entry, DotHtml),
                          Content |-> dir[decisions[k].entry].content,
                          File |-> TrimSuffix(decisions[k].entry, DotHtml)]>>)

CountOf(seq, x) == Cardinality({i \in 1..Len(seq) : seq[i] = x})

\* C19: an item whose download failed has a log entry with its name and no
\* example in the list; GetGitHubFiles goes on with the next name and returns
\* without error the examples of all the other items.
C19_DownloadFailureSkipsItem ==
    /\ \A t \in LastDecided : t.kind = "skip" => <<"WARNING", Str(t.filename)>> \in logs
    /\ ghpc = "failed" => decisions = <<>>
    /\ ghpc = "loop" =>
           /\ Len(decisions) = fileIdx - 1
           /\ ghExamples = KeptExamples(Len(decisions))
    /\ ghpc = "returned" =>
           \E kept \in {KeptExamples(Len(decisions))} :
               /\ Len(decisions) = Len(exampleFiles)
               /\ \A k \in 1..Len(decisions) : decisions[k].filename = exampleFiles[k]
               /\ Len(ghExamples) = Len(kept)
               /\ \A i \in 1..Len(ghExamples) :
                      CountOf(ghExamples, ghExamples[i]) = CountOf(kept, ghExamples[i])

C19_Witness ==
    /\ ghpc = "returned"
    /\ Len(decisions) = 2
    /\ decisions[1].kind = "skip"
    /\ decisions[2].kind = "download"
    /\ ghExamples = <<[Title |-> decisions[2].filename,
                       Content |-> RemoteContent(decisions[2].filename),
                       File |-> sanitizeFilename(decisions[2].filename)]>>
    /\ <<"WARNING", Str(decisions[1].filename)>> \in logs

\* C20: every recoverable error that occurred in GetGitHubFiles has a log
\* entry that names the failing item.
C20_EveryErrorLogged ==
    \A e \in errors :
        \E level \in {"WARNING", "ERROR"} : <<level, Str(e[2])>> \in logs

\* The temporary files of a run, by name within the output directory.
TmpFiles ==
    {"temp_intro.html", "temp_intro.pdf", "intro.html", "intro.pdf",
     "merged_examples.pdf", "temp_with_intro.pdf"}

\* The final artifact exists and holds the retained front matter followed by
\* the pages of the merged per-item PDFs as they are on disk now.
FinalHoldsItems ==
    /\ Exists(disk, finalPdf)
    /\ \A i \in 1..Len(pdfPaths) : Exists(disk, pdfPaths[i])
    /\ disk[finalPdf].body
           = Pages("intro", introRenders[2].pages) \o MergePages(disk, pdfPaths, 1)

\* C23 as claimed: after a run that completed, no temporary file exists, the
\* final artifact exists, and every merged per-item PDF exists unchanged.
C23_TempFilesRemoved ==
    pc = "done" =>
        /\ \A f \in TmpFiles : ~Exists(disk, Join(outputDir, f))
        /\ FinalHoldsItems

\* C23 as built: the same, where a temporary file stays only when os.Remove
\* failed on it: with an [INFO] entry for a file of CleanupTmpFiles, and
\* without one for temp_with_intro.pdf after the bookmarks were added.
C23_TempFilesRemovedOrLogged ==
    pc = "done" =>
        /\ \A f \in TmpFiles \ {"temp_with_intro.pdf"} :
               ~Exists(disk, Join(outputDir, f)) \/ <<"INFO", f>> \in logs
        /\ Exists(disk, Join(outputDir, "temp_with_intro.pdf")) => outline = "added"
        /\ FinalHoldsItems

C23_Witness ==
    /\ pc = "done"
    /\ outline = "fallback"
    /\ Len(pdfPaths) = 2
    /\ \A f \in TmpFiles : ~Exists(disk, Join(outputDir, f))
    /\ FinalHoldsItems
    /\ logs = {<<"WARNING", "bookmarks">>}

\* C24 as claimed: a pass of the loop records 1 only when the page-count query
\* failed, which is logged as a warning that names the item; without that
\* warning the recorded count is the page count of the item's PDF.
C24_OneOnlyOnFailure ==
    [][(/\ pc = "loop"
        /\ idx <= Len(examples)
        /\ idx' = idx + 1
        /\ examplePageCounts' # examplePageCounts)
       => LET st == ReceiveOutputFileStatus(disk, outputDir, examples[idx].File)
              recorded == examplePageCounts'[Len(examplePageCounts')]
              warned == <<"WARNING", examples[idx].Title>> \in logs'
          IN  /\ recorded = 1 => warned
              /\ ~warned => recorded = Len(disk'[st.PDFPath].body)]_vars

\* C24 as amended: a pass of the loop that records a page count records the
\* page count of the item's PDF (which can be 1), or, when the query failed,
\* the fallback 1 together with a warning that names the item; a value other
\* than the PDF's page count is recorded only with that warning.  This holds
\* for a reused PDF and for a PDF rendered in the pass.
C24_FallbackOnlyOnFailure ==
    [][(/\ pc = "loop"
        /\ idx <= Len(examples)
        /\ idx' = idx + 1
        /\ examplePageCounts' # examplePageCounts)
       => LET st == ReceiveOutputFileStatus(disk, outputDir, examples[idx].File)
              recorded == examplePageCounts'[Len(examplePageCounts')]
              warned == <<"WARNING", examples[idx].Title>> \in logs'
          IN  /\ Len(examplePageCounts') = Len(examplePageCounts) + 1
              /\ pdfPaths' = Append(pdfPaths, st.PDFPath)
              /\ Exists(disk', st.PDFPath)
              /\ warned => recorded = 1
              /\ ~warned => recorded = Len(disk'[st.PDFPath].body)
              /\ ~warned => logs' = logs
              /\ outcome'[idx] \in {"reused", "rendered"}]_vars

C24_Witness ==
    /\ pc = "loop"
    /\ idx = 3
    /\ outcome = <<"reused", "rendered">>
    /\ examplePageCounts = <<1, 1>>
    /\ Len(disk[pdfPaths[1]].body) = 0
    /\ Len(disk[pdfPaths[2]].body) = 1
    /\ logs = {<<"WARNING", examples[1].Title>>}

\* C25: when the page count of the placeholder front matter could not be
\* read, a warning is logged, F is 2, the run goes on to the final front
\* matter, whose table of contents starts at page 3 and follows the recorded
\* page counts, and the bookmarks have the front matter at (1, 2) and the
\* first item from page 3.
C25_IntroFallbackTwo ==
    /\ (steps # <<>> /\ steps[Len(steps)] = "measure") => pc = "intro"
    /\ MeasureFailed(logs) =>
           /\ introPageCount = 2
           /\ Len(introRenders) = 2 =>
                  /\ introRenders[2].toc = AddPageInfoToTOC(examples, 3, examplePageCounts)
                  /\ examples # <<>> => introRenders[2].toc[1].page = 3
           /\ bookmarks # <<>> =>
                  /\ bookmarks[1] = [Title |-> IntroTitle, PageFrom |-> 1, PageThru |-> 2]
                  /\ examples # <<>> => bookmarks[2].PageFrom = 3
                  /\ bookmarks = BuildBookmarks(examples, 2, examplePageCounts)

C25_Witness ==
    /\ pc = "done"
    /\ MeasureFailed(logs)
    /\ outline = "added"
    /\ introRenders[1].pages = 3
    /\ introPageCount = 2
    /\ Len(examples) = 2
    /\ introRenders[2].toc[1].page = 3
    /\ bookmarks[1].PageThru = 2
    /\ bookmarks[2].PageFrom = 3
    /\ disk[finalPdf].marks = bookmarks

\* C27: once the loop has gone through every example, the two accumulators
\* have one entry per example, at the example's index: pdfPaths[i] is the PDF
\* of examples[i] and examplePageCounts[i] was recorded for it.
C27_AccumulatorsAligned ==
    (pc \in {"tempIntro", "measure", "intro", "merge2", "bookmarks"}
        \/ (pc = "loop" /\ LoopDone)) =>
        /\ Len(examplePageCounts) = Len(examples)
        /\ Len(pdfPaths) = Len(examples)
        /\ \A i \in 1..Len(examples) :
               pdfPaths[i] = Join(outputDir, examples[i].File \o ".pdf")

\* The PDF of example k, as it is on disk.
ItemPdf(k) == disk[Join(outputDir, examples[k].File \o ".pdf")].body

\* The pages of the PDFs of the examples before k.
RECURSIVE ItemPagesBefore(_)
ItemPagesBefore(k) == IF k <= 1 THEN 0 ELSE ItemPagesBefore(k - 1) + Len(ItemPdf(k - 1))

\* The first page of example k inside the combined document: after the
\* retained front matter and the PDFs of the examples before it.
ActualFirstPage(k) == introRenders[2].pages + ItemPagesBefore(k) + 1

\* C30: when a run has applied the bookmarks, the final document is the
\* retained front matter followed by the PDFs of the examples in order, and
\* the bookmark of example k runs from the first to the last page of that
\* example's PDF inside the final document.
C30_BookmarksPointAtRealPages ==
    (outline = "added" /\ pc \in {"finish", "done"}) =>
        /\ Len(bookmarks) = Len(examples) + 1
        /\ disk[finalPdf].marks = bookmarks
        /\ disk[finalPdf].body
               = Pages("intro", introRenders[2].pages) \o MergePages(disk, pdfPaths, 1)
        /\ \A k \in 1..Len(examples) :
               /\ pdfPaths[k] = Join(outputDir, examples[k].File \o ".pdf")
               /\ ItemBookmark(k).PageFrom = ActualFirstPage(k)
               /\ ItemBookmark(k).PageThru = ActualFirstPage(k) + Len(ItemPdf(k)) - 1
               /\ SubSeq(disk[finalPdf].body, ItemBookmark(k).PageFrom,
                                              ItemBookmark(k).PageThru) = ItemPdf(k)

\* The paths of the PDFs of the first n examples that were not skipped, in
\* the order of the examples.
RECURSIVE MergedPaths(_)
MergedPaths(n) ==
    IF n = 0 THEN <<>>
    ELSE MergedPaths(n - 1)
         \o (IF outcome[n] = "skipped" THEN <<>>
             ELSE <<Join(outputDir, examples[n].File \o ".pdf")>>)

\* C21: the list GetGitHubFiles returns is in non-decreasing order of Title
\* and holds exactly the examples of the items that were reused or
\* downloaded; main works on that list, and the entries of both tables of
\* contents, the bookmarks and the merge list follow its order.  The returned
\* list is examined when GetGitHubFiles returns; main holds a copy of it.
C21_SortedAndSameOrder ==
    /\ (ghpc = "returned" /\ pc = "start") =>
           \E kept \in {KeptExamples(Len(decisions))} :
               /\ \A i \in 1..Len(ghExamples) : \A j \in 1..Len(ghExamples) :
                      i < j => ~StrLess(ghExamples[j].Title, ghExamples[i].Title)
               /\ Len(ghExamples) = Len(kept)
               /\ \A i \in 1..Len(ghExamples) :
                      CountOf(ghExamples, ghExamples[i]) = CountOf(kept, ghExamples[i])
    /\ pc \notin {"start", "fatal"} => examples = MainExamples(ghExamples)
    /\ \A r \in 1..Len(introRenders) :
           TitlesOf(introRenders[r].toc) = [k \in 1..Len(examples) |-> examples[k].Title]
    /\ bookmarks # <<>> =>
           /\ Len(bookmarks) = Len(examples) + 1
           /\ \A k \in 1..Len(examples) :
                  ItemBookmark(k).Title = BookmarkTitle(k, examples[k].Title)
    /\ pdfPaths = MergedPaths(Len(outcome))

C21_Witness ==
    /\ pc = "done"
    /\ ghpc = "returned"
    /\ exampleFiles = <<<<"a", "-", "b", "-", "c">>, <<"a", "-", "b", "-", "c", "-", "d", "-", "e", "-", "f", "-", "g">>>>
    /\ decisions[1].kind = "reuse"
    /\ decisions[1].entry = <<"c", "-", "b", "-", "a", ".", "h", "t", "m", "l">>
    /\ decisions[2].kind = "download"
    /\ ghExamples[1].Title = <<"a", "-", "b", "-", "c", "-", "d", "-", "e", "-", "f", "-", "g">>
    /\ ghExamples[2].Title = <<"c", "-", "b", "-", "a">>
    /\ bookmarks[2].Title = "1. a-b-c-d-e-f-g"
    /\ bookmarks[3].Title = "2. c-b-a"
    /\ pdfPaths = <<"files/a_b_c_d_e_f_g.pdf", "files/c-b-a.pdf">>
    /\ TitlesOf(introRenders[2].toc) = <<"a-b-c-d-e-f-g", "c-b-a">>

HelloWorldIds == {<<"h", "e", "l", "l", "o", "_", "w", "o", "r", "l", "d", "_", "e", "x", "a", "m", "p", "l", "e">>, <<"G", "o", ":", "H", "e", "l", "l", "o", " ", "W", "O", "R", "L", "D">>}

HelloWorldCached == <<"h", "e", "l", "l", "o", "-", "w", "o", "r", "l", "d", ".", "h", "t", "m", "l">>

\* C22: the words of an identifier are non-empty, lowercase, free of
\* separators and never "go", "by" or "example"; hello_world_example (and
\* Go:Hello WORLD) and hello-world.html both have the words hello, world,
\* their similarity is 1, and when the directory that holds hello-world.html
\* was read the file is reused for the item and nothing is fetched for it.
\* The decisions are complete when GetGitHubFiles returns; main does not
\* change them.
C22_HelloWorldReused ==
    pc = "start" =>
    \A k \in 1..Len(decisions) :
       \E d \in {decisions[k]} : \E words \in {ExtractWords(decisions[k].filename)} :
               /\ \A i \in 1..Len(words) :
                      /\ words[i] # <<>>
                      /\ words[i] \notin {<<"g", "o">>, <<"b", "y">>,
                                          <<"e", "x", "a", "m", "p", "l", "e">>}
                      /\ \A j \in 1..Len(words[i]) :
                             /\ words[i][j] \notin {"-", "_", " ", ":"}
                             /\ ~IsUpper(words[i][j])
               /\ d.filename \in HelloWorldIds =>
                      /\ ExtractWords(HelloWorldCached) = words
                      /\ words = <<<<"h", "e", "l", "l", "o">>, <<"w", "o", "r", "l", "d">>>>
                      /\ \E r \in {WordOverlap(words, ExtractWords(HelloWorldCached))} :
                             r.num = r.den /\ r.den > 0
                      /\ (d.listed /\ HelloWorldCached \in DOMAIN dir) =>
                             /\ d.kind = "reuse"
                             /\ d.entry = HelloWorldCached
                             /\ <<"downloadFile", d.filename>> \notin errors
                             /\ \A i \in 1..Len(ghExamples) :
                                    ghExamples[i].Content # RemoteContent(d.filename)

C22_Witness ==
    /\ pc = "start"
    /\ ghpc = "returned"
    /\ Len(decisions) = 2
    /\ \A k \in 1..2 : decisions[k].kind = "reuse" /\ decisions[k].entry = HelloWorldCached
    /\ {decisions[k].filename : k \in 1..2} = HelloWorldIds
    /\ \A k \in 1..2 : ghExamples[k].File = <<"h", "e", "l", "l", "o", "-", "w", "o", "r", "l", "d">>
    /\ \A k \in 1..2 : ghExamples[k].Content = CachedContent(HelloWorldCached)

\* The paths main would use for an item under its listed name.
CanonicalPaths(name) ==
    {Join(outputDir, Str(sanitizeFilename(name)) \o ext) : ext \in {".html", ".pdf"}}

\* C26: an item for which a cached file was adopted has an example whose
\* Content is that file's content and whose Title and File are the file's
\* name without ".html", and nothing was fetched for it; main looks for,
\* renders and merges the files named after File: a pass of its loop calls
\* only HTMLToPDF, with File, for such an item, the merge list holds the path
\* made from File, and no file named after the listed name appears.
C26_AdoptedWorkingId ==
    /\ pc = "start" =>
           \A k \in 1..Len(decisions) :
               decisions[k].kind = "reuse" =>
                   \E d \in {decisions[k]} : \E stem \in {TrimSuffix(decisions[k].entry, DotHtml)} :
                       /\ \E i \in 1..Len(ghExamples) :
                              ghExamples[i] = [Title |-> stem, File |-> stem,
                                               Content |-> dir[d.entry].content]
                       /\ <<"downloadFile", d.filename>> \notin errors
                       /\ \A i \in 1..Len(ghExamples) :
                              /\ ghExamples[i].Content # RemoteContent(d.filename)
                              /\ stem # sanitizeFilename(d.filename) =>
                                     ghExamples[i].File # sanitizeFilename(d.filename)
    /\ (pc = "loop" /\ idx > 1) =>
           /\ \A c \in WordSet(calls) : c[2] = examples[idx - 1].File
           /\ (\E k \in 1..Len(decisions) :
                   /\ decisions[k].kind = "reuse"
                   /\ Str(TrimSuffix(decisions[k].entry, DotHtml)) = examples[idx - 1].File) =>
                  /\ \A c \in WordSet(calls) : c[1] = "HTMLToPDF"
                  /\ outcome[idx - 1] # "skipped" =>
                         /\ pdfPaths[Len(pdfPaths)]
                               = Join(outputDir, examples[idx - 1].File \o ".pdf")
                         /\ Exists(disk, pdfPaths[Len(pdfPaths)])
    /\ pc = "done" =>
           /\ pdfPaths = MergedPaths(Len(examples))
           /\ \A k \in 1..Len(decisions) :
                  (/\ decisions[k].kind = "reuse"
                   /\ \A j \in 1..Len(decisions) : decisions[j].kind = "reuse") =>
                      \A path \in CanonicalPaths(decisions[k].filename) : ~Exists(disk, path)

C26_Witness ==
    /\ pc = "done"
    /\ exampleFiles = <<<<"a", "-", "b", "-", "c">>, <<"a", "-", "b", "-", "c", "-", "d", "-", "e", "-", "f", "-", "g">>>>
    /\ decisions[1].kind = "reuse"
    /\ decisions[1].entry = <<"c", "-", "b", "-", "a", ".", "h", "t", "m", "l">>
    /\ decisions[2].kind = "download"
    /\ examples[2] = [Title |-> "c-b-a", File |-> "c-b-a",
                      Content |-> CachedContent(<<"c", "-", "b", "-", "a", ".", "h", "t", "m", "l">>)]
    /\ outcome = <<"rendered", "rendered">>
    /\ pdfPaths[2] = "files/c-b-a.pdf"
    /\ Exists(disk, "files/c-b-a.pdf")
    /\ ~Exists(disk, "files/a_b_c.pdf")
    /\ ~Exists(disk, "files/a_b_c.html")

\* C28: the examples GetGitHubFiles returns for items of different names
\* have different File values, no cached file is adopted for two items, and
\* no path is in the merge list twice.
C28_DistinctWorkingIds ==
    /\ \A i \in 1..Len(ghExamples) : \A j \in 1..Len(ghExamples) :
           i # j => ghExamples[i].File # ghExamples[j].File
    /\ \A i \in 1..Len(decisions) : \A j \in 1..Len(decisions) :
           (i # j /\ decisions[i].kind = "reuse" /\ decisions[j].kind = "reuse")
               => decisions[i].entry # decisions[j].entry
    /\ \A i \in 1..Len(pdfPaths) : \A j \in 1..Len(pdfPaths) :
           i # j => pdfPaths[i] # pdfPaths[j]

\* C29: a run that downloads every item returns the listed names as titles,
\* in sorted order; a later run with the same listing, on the directory that
\* run left, that reuses a cached file for every item returns the same
\* titles in the same order.
C29_SameTitlesAcrossCache ==
    (/\ ghpc = "returned"
     /\ Len(decisions) = Len(exampleFiles)
     /\ \A k \in 1..Len(decisions) : decisions[k].kind = "reuse"
     /\ FirstRunLeft)
        => [i \in 1..Len(ghExamples) |-> ghExamples[i].Title]
               = SortStrings({exampleFiles[i] : i \in 1..Len(exampleFiles)})

====
